---- MODULE Spec2Model ----
(***************************************************************************)
(* Model of tools/question_generator.py: the netlist inference functions   *)
(* (_assign_element_labels, _build_node_connectivity), the component-table *)
(* handler that runs them, and the STACK document generator generate_xml   *)
(* with the decision-tree scoring structures (PRTs) it emits.              *)
(*                                                                         *)
(* Python strings that the code builds or compares character by character  *)
(* (labels) are sequences of one-character strings; strings the code only  *)
(* compares as wholes (type names, tags) are TLA+ strings.                 *)
(***************************************************************************)
EXTENDS Naturals, Integers, Sequences, FiniteSets, TLC

VARIABLES
    export,         \* simulator: export text, a sequence of lines
    sim_elems,      \* simulator: element metadata list (getElements)
    refreshed,      \* TRUE once _on_elements_result has run on (export, sim_elems)
    m_elements,     \* MainWindow._elements
    label_map,      \* MainWindow._label_map      label -> element index
    index_to_label, \* MainWindow._index_to_label element index -> label
    node_list,      \* MainWindow._node_list      node id -> [labels, elements]
    element_nodes,  \* MainWindow._element_nodes  element index -> node ids
    comp_rows,      \* MainWindow.comp_table: rows [label, checked]
    mode,           \* MainWindow.editable_combo.currentData()
    meas_rows,      \* MainWindow.meas_table: the measurement rows
    doc,            \* the document the last _generate() returned
    ev,             \* one evaluation of a scoring structure of doc
                    \* (test: the self-test it belongs to, 0 for a submission)
    ctz_text,       \* MainWindow.ctz_edit.toPlainText()
    save,           \* the last run of MainWindow._on_save
    mon,            \* the monitor script in the simulator page and the
                    \* circuit it watches
    panel           \* SimulatorPanel: timer, _latest_values,
                    \* _sim_connected, buttons, page and polls in flight

net_vars == <<export, sim_elems, refreshed, m_elements, label_map,
              index_to_label, node_list, element_nodes, comp_rows>>

doc_vars == <<mode, meas_rows, doc, ev>>

save_vars == <<ctz_text, save>>

panel_vars == <<mon, panel>>

vars == <<net_vars, doc_vars, save_vars, panel_vars>>

----------------------------------------------------------------------------
(* Bounds of the model *)

MaxWires == 2       \* wire lines in the export (topology specification)
MaxElems == 2       \* non-wire element lines (topology specification)
MaxLines == 3       \* wire and element lines together (topology specification)
MaxCompLines == 3   \* wire and element lines (component-table specification)
MaxDocElems == 2    \* wire and element lines (document specification)
MaxMeas == 2        \* rows of the measurement table (document specification)
MaxSymRows == 3     \* rows of the measurement table (symbol specification)
MaxMonElems == 2    \* elements of the watched circuit (monitor specification)
MaxLoads == 2       \* calls of SimulatorPanel.start (panel specification)
MaxPolls == 2       \* polls in flight at a time (panel specification)
MaxMalLines == 3    \* wire and element lines (malformed-line specification)
MaxMalformed == 1   \* malformed lines among them (malformed-line specification)

\* Grid coordinates used by the circuits of the model, as (x, y).
Coords == {<<0, 0>>, <<10, 0>>, <<0, 10>>}

\* Post pairs of the two-post elements of the topology specification.
ElemShapes == {<<<<0, 0>>, <<10, 0>>>>, <<<<10, 0>>, <<0, 10>>>>,
               <<<<0, 0>>, <<0, 10>>>>}

----------------------------------------------------------------------------
(* Strings as character sequences *)

DigitChar == <<"0", "1", "2", "3", "4", "5", "6", "7", "8", "9">>

\* str(n) of a natural number, as f'{seq}' renders it
RECURSIVE IntToStr(_)
IntToStr(n) ==
    IF n < 10 THEN <<DigitChar[n + 1]>>
    ELSE IntToStr(n \div 10) \o <<DigitChar[(n % 10) + 1]>>

NoLabel == <<>>     \* the empty string ''

----------------------------------------------------------------------------
(* Export text *)

EXPORT_META_ONLY == {"$", "o", "38", "h", "&"}

\* A token of a line after the type tag: ok = it parses with int().
Tok(n) == [ok |-> TRUE, v |-> n]

\* 'w x1 y1 x2 y2 flags'
WireLine(a, b) ==
    [tag |-> "w", f |-> <<Tok(a[1]), Tok(a[2]), Tok(b[1]), Tok(b[2]), Tok(0)>>]

\* 'tag x1 y1 x2 y2 flags param'
ElemLine(tag, a, b) ==
    [tag |-> tag,
     f |-> <<Tok(a[1]), Tok(a[2]), Tok(b[1]), Tok(b[2]), Tok(0), Tok(100)>>]

\* '$ 1 0.000005 ...' header line of every export
HeaderLine == [tag |-> "$", f |-> <<Tok(1)>>]

RECURSIVE SelectLines(_, _)
SelectLines(s, drop) ==
    IF s = <<>> THEN <<>>
    ELSE IF Head(s).tag \in drop THEN SelectLines(Tail(s), drop)
         ELSE <<Head(s)>> \o SelectLines(Tail(s), drop)

\* _get_element_lines
GetElementLines(export_text) == SelectLines(export_text, EXPORT_META_ONLY)

----------------------------------------------------------------------------
(* Element metadata and labels *)

\* Element metadata as the simulator page reports it:
\* { index: i, type: e.getType(), posts: posts, label: lbl }
Elem(i, t, n, l) == [index |-> i, type |-> t, posts |-> n, label |-> l]

\* Type names of the model in the order sorted() gives them (ASCII order:
\* 'G' < 'R' < 'S' < 'V' < 'W', and '2' < 'E' puts Switch2Elm before
\* SwitchElm).
TYPE_ORDER == <<"GroundElm", "ResistorElm", "Switch2Elm", "SwitchElm",
                "VoltageElm", "WireElm">>

ELEMENT_LABEL_PREFIX ==
    [t \in {"ResistorElm", "CapacitorElm", "InductorElm", "VoltageElm",
            "CurrentElm", "DiodeElm", "PotElm", "RailElm", "VarRailElm",
            "OpAmpElm", "TransistorElm", "MosfetElm", "SwitchElm",
            "Switch2Elm", "ZenerElm", "LEDElm", "TransformerElm"} |->
        CASE t = "ResistorElm" -> <<"R">>
          [] t = "CapacitorElm" -> <<"C">>
          [] t = "InductorElm" -> <<"L">>
          [] t = "VoltageElm" -> <<"V">>
          [] t = "CurrentElm" -> <<"I">>
          [] t = "DiodeElm" -> <<"D">>
          [] t = "PotElm" -> <<"P">>
          [] t = "RailElm" -> <<"V", "r">>
          [] t = "VarRailElm" -> <<"V", "r">>
          [] t = "OpAmpElm" -> <<"U">>
          [] t = "TransistorElm" -> <<"Q">>
          [] t = "MosfetElm" -> <<"M">>
          [] t = "SwitchElm" -> <<"S">>
          [] t = "Switch2Elm" -> <<"S">>
          [] t = "ZenerElm" -> <<"D", "z">>
          [] t = "LEDElm" -> <<"L", "E", "D">>
          [] t = "TransformerElm" -> <<"T">>]

\* etype[:2] for the type names of the model that are not in the table
First2(t) ==
    CASE t = "GroundElm" -> <<"G", "r">>
      [] t = "WireElm" -> <<"W", "i">>
      [] OTHER -> <<>>

\* ELEMENT_LABEL_PREFIX.get(etype, etype[:2])
LabelPrefix(t) ==
    IF t \in DOMAIN ELEMENT_LABEL_PREFIX THEN ELEMENT_LABEL_PREFIX[t]
    ELSE First2(t)

\* d[k] = v on a dict: a function whose domain is the set of keys
Put(d, k, v) == [x \in (DOMAIN d) \cup {k} |-> IF x = k THEN v ELSE d[x]]

EmptyDict == [x \in {} |-> 0]

\* sorted() of a set of integers, as a sequence
RECURSIVE SortedSeq(_)
SortedSeq(S) ==
    IF S = {} THEN <<>>
    ELSE LET m == CHOOSE x \in S : \A y \in S : x <= y
         IN <<m>> \o SortedSeq(S \ {m})

\* First pass that does not skip the wires
UserLabels_with_wires(elements) ==
    LET idx == {k \in 1..Len(elements) : elements[k].label # NoLabel}
    IN [i \in {elements[k].index : k \in idx} |->
           elements[CHOOSE k \in idx : elements[k].index = i].label]

\* First pass: user_labels (index -> label) of the non-wire elements that
\* carry a non-empty label
UserLabels(elements) ==
    LET idx == {k \in 1..Len(elements) :
                   /\ elements[k].type # "WireElm"
                   /\ elements[k].label # NoLabel}
    IN [i \in {elements[k].index : k \in idx} |->
           elements[CHOOSE k \in idx : elements[k].index = i].label]

\* Second pass that also groups the elements that have a user label
ByType_all(elements, user_labels, t) ==
    {elements[k].index : k \in {j \in 1..Len(elements) :
        /\ elements[j].type # "WireElm"
        /\ elements[j].type = t}}

\* Second pass: by_type[etype], the indices of the unlabelled non-wire
\* elements of one type
ByType(elements, user_labels, t) ==
    {elements[k].index : k \in {j \in 1..Len(elements) :
        /\ elements[j].type # "WireElm"
        /\ elements[j].index \notin DOMAIN user_labels
        /\ elements[j].type = t}}

\* Register user-defined labels first: for idx, lbl in user_labels.items(),
\* in insertion (element) order; a later index overwrites label_map[lbl]
RECURSIVE RegisterUser(_, _, _)
RegisterUser(order, user_labels, st) ==
    IF order = <<>> THEN st
    ELSE LET idx == Head(order)
             lbl == user_labels[idx]
         IN RegisterUser(Tail(order), user_labels,
                [st EXCEPT !.label_map = Put(st.label_map, lbl, idx),
                           !.index_to_label = Put(st.index_to_label, idx, lbl)])

\* A label loop that takes the next number whether or not it is in use
SkipUsed_never(prefix, seq, used) == seq

\* while label in used_labels: seq += 1
RECURSIVE SkipUsed(_, _, _)
SkipUsed(prefix, seq, used) ==
    IF (prefix \o IntToStr(seq)) \in used THEN SkipUsed(prefix, seq + 1, used)
    ELSE seq

\* for idx in indices: the inner loop of the auto-generation pass
RECURSIVE AutoIndices(_, _, _, _)
AutoIndices(indices, prefix, seq, st) ==
    IF indices = <<>> THEN st
    ELSE LET idx == Head(indices)
             n == SkipUsed(prefix, seq, st.used_labels)
             label == prefix \o IntToStr(n)
         IN AutoIndices(Tail(indices), prefix, n + 1,
                [label_map |-> Put(st.label_map, label, idx),
                 index_to_label |-> Put(st.index_to_label, idx, label),
                 used_labels |-> st.used_labels \cup {label}])

\* for etype in sorted(by_type): the outer loop of the auto-generation pass
RECURSIVE AutoTypes(_, _, _, _)
AutoTypes(types, elements, user_labels, st) ==
    IF types = <<>> THEN st
    ELSE LET etype == Head(types)
             indices == SortedSeq(ByType(elements, user_labels, etype))
             st2 == IF indices = <<>> THEN st
                    ELSE AutoIndices(indices, LabelPrefix(etype), 1, st)
         IN AutoTypes(Tail(types), elements, user_labels, st2)

\* _assign_element_labels(elements): [label_map, index_to_label]
_assign_element_labels(elements) ==
    LET user_labels == UserLabels(elements)
        used == {user_labels[i] : i \in DOMAIN user_labels}
        order == SortedSeq(DOMAIN user_labels)
        st0 == [label_map |-> EmptyDict, index_to_label |-> EmptyDict,
                used_labels |-> used]
        st1 == RegisterUser(order, user_labels, st0)
        st2 == AutoTypes(TYPE_ORDER, elements, user_labels, st1)
    IN [label_map |-> st2.label_map, index_to_label |-> st2.index_to_label]

----------------------------------------------------------------------------
(* Node resolver: union-find on (x, y) coordinate tuples *)

\* parent.get(x, x)
ParentGet(parent, x) == IF x \in DOMAIN parent THEN parent[x] ELSE x

\* find whose path halving falls back on x, not on parent[x], when the
\* parent of x has no entry
RECURSIVE find_wrong_default(_, _)
find_wrong_default(parent, x) ==
    IF ParentGet(parent, x) = x THEN [root |-> x, parent |-> parent]
    ELSE LET p2 == Put(parent, x, IF parent[x] \in DOMAIN parent
                                  THEN parent[parent[x]] ELSE x)
         IN find_wrong_default(p2, p2[x])

\* find(x) with path halving: [root, parent] (the returned root and the
\* parent dict as the call leaves it)
RECURSIVE find(_, _)
find(parent, x) ==
    IF ParentGet(parent, x) = x THEN [root |-> x, parent |-> parent]
    ELSE LET p2 == Put(parent, x, ParentGet(parent, parent[x]))
         IN find(p2, p2[x])

\* union that re-parents a itself instead of the root of a
union_attach_node(parent, a, b) ==
    LET fa == find(parent, a)
        fb == find(fa.parent, b)
    IN IF fa.root # fb.root THEN Put(fb.parent, a, fb.root)
       ELSE fb.parent

\* union(a, b): the parent dict after the call
union(parent, a, b) ==
    LET fa == find(parent, a)
        fb == find(fa.parent, b)
    IN IF fa.root # fb.root THEN Put(fb.parent, fa.root, fb.root)
       ELSE fb.parent

\* A wire loop that reads a coordinate token int() rejects as 0 and merges
\* the endpoints all the same
WireStep_zero_for_bad(parent, line) ==
    IF line.tag = "w" /\ Len(line.f) >= 4
    THEN LET n(k) == IF line.f[k].ok THEN line.f[k].v ELSE 0
         IN union(parent, <<n(1), n(2)>>, <<n(3), n(4)>>)
    ELSE parent

\* Parse wire lines and merge their endpoints: one line of the loop.
\* parts = [tag] + f, so len(parts) >= 5 is Len(f) >= 4; a token that int()
\* rejects raises ValueError before union is called.
WireStep(parent, line) ==
    IF /\ line.tag = "w"
       /\ Len(line.f) >= 4
       /\ \A k \in 1..4 : line.f[k].ok
    THEN union(parent, <<line.f[1].v, line.f[2].v>>,
                       <<line.f[3].v, line.f[4].v>>)
    ELSE parent

RECURSIVE MergeWires(_, _)
MergeWires(parent, lines) ==
    IF lines = <<>> THEN parent
    ELSE MergeWires(WireStep(parent, Head(lines)), Tail(lines))

\* coords that lists the posts of an element last post first
RECURSIVE PostCoords_reversed(_, _, _)
PostCoords_reversed(line, p, posts) ==
    IF p >= posts THEN <<>>
    ELSE LET x_idx == 1 + 2 * p
             y_idx == 2 + 2 * p
             here == IF /\ y_idx < 1 + Len(line.f)
                        /\ line.f[x_idx].ok
                        /\ line.f[y_idx].ok
                     THEN <<<<line.f[x_idx].v, line.f[y_idx].v>>>>
                     ELSE <<>>
         IN PostCoords_reversed(line, p + 1, posts) \o here

\* coords of one element: for p in range(posts), the post p (0-based) is
\* kept when y_idx = 2 + 2p < len(fields) and both tokens parse.
\* fields[k] is line.f[k] for k >= 1, and len(fields) = 1 + Len(line.f).
RECURSIVE PostCoords(_, _, _)
PostCoords(line, p, posts) ==
    IF p >= posts THEN <<>>
    ELSE LET x_idx == 1 + 2 * p
             y_idx == 2 + 2 * p
             here == IF /\ y_idx < 1 + Len(line.f)
                        /\ line.f[x_idx].ok
                        /\ line.f[y_idx].ok
                     THEN <<<<line.f[x_idx].v, line.f[y_idx].v>>>>
                     ELSE <<>>
         IN here \o PostCoords(line, p + 1, posts)

\* element_posts: element position -> list of post coordinates, for the
\* positions i < len(elem_lines)
ElementPosts(elem_lines, elements) ==
    [i \in {k - 1 : k \in 1..Len(elements)} \cap {k - 1 : k \in 1..Len(elem_lines)}
        |-> PostCoords(elem_lines[i + 1], 0, elements[i + 1].posts)]

SeqRange(s) == {s[k] : k \in 1..Len(s)}

\* key=lambda c: (c[1], c[0]): strict order of two coordinates by (y, x)
KeyLess(c, d) == \/ c[2] < d[2]
                 \/ (c[2] = d[2] /\ c[1] < d[1])

\* node_map: for num, root in enumerate(sorted_roots, 1), where sorted_roots
\* is the group keys (roots) sorted by (y, x); keys are distinct, so the
\* number of a root is one more than the number of roots sorted before it
NodeMap(roots) ==
    [r \in roots |-> 1 + Cardinality({q \in roots : KeyLess(q, r)})]

\* list.append(x) if x not in list
AppendNew(s, x) == IF x \in SeqRange(s) THEN s ELSE Append(s, x)

\* The root find(c) returns. find only shortens paths, it never changes
\* the root of a coordinate, so the finds made after the wire loop are
\* all answered from the parent dict that loop left.
RootOf(parent, c) == find(parent, c).root

\* Posts of one element in the loop that fills node_list[n]['elements']
\* and element_nodes[idx]: acc = [node_list, nodes]
RECURSIVE ElemNodeStep(_, _, _, _, _)
ElemNodeStep(coords, label, parent, node_map, acc) ==
    IF coords = <<>> THEN acc
    ELSE LET root == RootOf(parent, Head(coords))
         IN IF root \in DOMAIN node_map
            THEN LET n == node_map[root]
                     nl == IF label # NoLabel
                           THEN [acc.node_list EXCEPT ![n].elements =
                                    AppendNew(@, label)]
                           ELSE acc.node_list
                 IN ElemNodeStep(Tail(coords), label, parent, node_map,
                        [node_list |-> nl, nodes |-> Append(acc.nodes, n)])
            ELSE ElemNodeStep(Tail(coords), label, parent, node_map, acc)

\* for idx, coords in element_posts.items(): acc = [node_list, element_nodes]
RECURSIVE ElemNodeLoop(_, _, _, _, _, _)
ElemNodeLoop(order, element_posts, index_to_lbl, parent, node_map, acc) ==
    IF order = <<>> THEN acc
    ELSE LET idx == Head(order)
             label == IF idx \in DOMAIN index_to_lbl THEN index_to_lbl[idx]
                      ELSE NoLabel
             r == ElemNodeStep(element_posts[idx], label, parent, node_map,
                      [node_list |-> acc.node_list, nodes |-> <<>>])
         IN ElemNodeLoop(Tail(order), element_posts, index_to_lbl, parent,
                node_map,
                [node_list |-> r.node_list,
                 element_nodes |-> Put(acc.element_nodes, idx, r.nodes)])

\* Extract user labels from labeled node elements: for i, elem in
\* enumerate(elements), the label goes to the node of the first post
RECURSIVE NodeLabelLoop(_, _, _, _, _, _)
NodeLabelLoop(i, elements, element_posts, parent, node_map, nl) ==
    IF i >= Len(elements) THEN nl
    ELSE LET lbl == elements[i + 1].label
             nl2 == IF /\ lbl # NoLabel
                       /\ i \in DOMAIN element_posts
                       /\ element_posts[i] # <<>>
                    THEN LET root == RootOf(parent, element_posts[i][1])
                         IN IF root \in DOMAIN node_map
                            THEN [nl EXCEPT ![node_map[root]].labels =
                                     AppendNew(@, lbl)]
                            ELSE nl
                    ELSE nl
         IN NodeLabelLoop(i + 1, elements, element_posts, parent, node_map, nl2)

\* _build_node_connectivity(export_text, elements, index_to_label):
\* [node_list, element_nodes]
_build_node_connectivity(export_text, elements, index_to_lbl) ==
    LET elem_lines == GetElementLines(export_text)
        parent == MergeWires(EmptyDict, export_text)
        element_posts == ElementPosts(elem_lines, elements)
        all_coords == UNION {SeqRange(element_posts[i]) : i \in DOMAIN element_posts}
        roots == {RootOf(parent, c) : c \in all_coords}
        node_map == NodeMap(roots)
        node_list0 == [n \in {node_map[r] : r \in roots} |->
                          [labels |-> <<>>, elements |-> <<>>]]
        r1 == ElemNodeLoop(SortedSeq(DOMAIN element_posts), element_posts,
                  index_to_lbl, parent, node_map,
                  [node_list |-> node_list0, element_nodes |-> EmptyDict])
        nl == NodeLabelLoop(0, elements, element_posts, parent, node_map,
                  r1.node_list)
    IN [node_list |-> nl, element_nodes |-> r1.element_nodes]

----------------------------------------------------------------------------
(* The simulator's circuit and the component-table handler *)

NumTag(lines, wire) ==
    Cardinality({k \in 1..Len(lines) : (lines[k].tag = "w") = wire
                                       /\ lines[k].tag \notin EXPORT_META_ONLY})

\* Export tag of an element type
TypeTag(t) ==
    CASE t = "WireElm" -> "w"
      [] t = "ResistorElm" -> "r"
      [] t = "SwitchElm" -> "s"
      [] t = "Switch2Elm" -> "S"
      [] t = "GroundElm" -> "g"
      [] t = "VoltageElm" -> "v"
      [] OTHER -> "x"

\* The user draws a wire from a to b in the simulator: one more export
\* line and one more entry of getElements()
SimAddWire(a, b, lbl) ==
    /\ ~refreshed
    /\ export' = Append(export, WireLine(a, b))
    /\ sim_elems' = Append(sim_elems, Elem(Len(sim_elems), "WireElm", 2, lbl))
    /\ UNCHANGED <<refreshed, m_elements, label_map, index_to_label,
                   node_list, element_nodes, comp_rows>>
    /\ UNCHANGED <<doc_vars, save_vars, panel_vars>>

\* e.getPostCount() of an element type: a ground has one post
PostCount(t) == IF t = "GroundElm" THEN 1 ELSE 2

\* The user places an element of type t between a and b
SimAddElem(t, a, b, lbl) ==
    /\ ~refreshed
    /\ export' = Append(export, ElemLine(TypeTag(t), a, b))
    /\ sim_elems' = Append(sim_elems, Elem(Len(sim_elems), t, PostCount(t), lbl))
    /\ UNCHANGED <<refreshed, m_elements, label_map, index_to_label,
                   node_list, element_nodes, comp_rows>>
    /\ UNCHANGED <<doc_vars, save_vars, panel_vars>>

\* Text of a token of an export line that is not a number: the empty token
\* (between two spaces) and a word
BadTokenText == <<<<>>, <<"a", "b", "c">>>>

\* A token that float() rejects, k-th of BadTokenText
BadTok(k) == [ok |-> FALSE, v |-> k]

TokText(tok) == IF tok.ok THEN IntToStr(tok.v) ELSE BadTokenText[tok.v]

\* Thresholds of the SI prefixes from 1 to 10^9, largest first (the
\* numbers of the model stay below the threshold 10^12 of 'T')
SI_PREFIXES ==
    <<[threshold |-> 1000000000, prefix |-> <<"G">>],
      [threshold |-> 1000000, prefix |-> <<"M">>],
      [threshold |-> 1000, prefix |-> <<"k">>],
      [threshold |-> 1, prefix |-> <<>>]>>

\* f'{number} {suffix}'.strip()
Strip(number, suffix) ==
    IF suffix = <<>> THEN number ELSE number \o <<" ">> \o suffix

\* _si_format(value, unit) of a token: the token itself when float()
\* rejects it; else the whole number of the model divided by the largest
\* threshold not above it ('.4g' of a whole quotient below 10000 is the
\* quotient), a space, the prefix and the unit, stripped
_si_format(tok, unit) ==
    IF ~tok.ok THEN TokText(tok)
    ELSE IF tok.v = 0 THEN Strip(<<"0">>, unit)
    ELSE LET k == CHOOSE q \in 1..Len(SI_PREFIXES) :
                      /\ tok.v >= SI_PREFIXES[q].threshold
                      /\ \A r \in 1..(q - 1) : tok.v < SI_PREFIXES[r].threshold
         IN Strip(IntToStr(tok.v \div SI_PREFIXES[k].threshold),
                  SI_PREFIXES[k].prefix \o unit)

\* _VALUE_PARAM_OFFSET.get(type_code, 0)
VALUE_PARAM_OFFSET(type_code) == IF type_code \in {"v", "R", "174"} THEN 1 ELSE 0

\* ELEMENT_TYPE_UNITS.get(type, ''); "Ohm" stands for the character U+03A9
ELEMENT_TYPE_UNITS(t) ==
    CASE t \in {"ResistorElm", "PotElm"} -> <<"Ohm">>
      [] t = "CapacitorElm" -> <<"F">>
      [] t = "InductorElm" -> <<"H">>
      [] t \in {"VoltageElm", "VarRailElm", "RailElm"} -> <<"V">>
      [] t = "CurrentElm" -> <<"A">>
      [] OTHER -> <<>>

\* Index (into the tokens after the type code) of the value token of the
\* k-th element: first_param_idx + value_offset
ParamIdx(lines, elements, k) ==
    2 * elements[k].posts + 2 + VALUE_PARAM_OFFSET(lines[k].tag)

\* A value list that stops at the last export line
_parse_element_values_no_surplus(export_text, elements) ==
    LET lines == SelectLines(export_text, EXPORT_META_ONLY)
    IN [k \in 1..(IF Len(elements) <= Len(lines) THEN Len(elements)
                  ELSE Len(lines)) |->
           IF ParamIdx(lines, elements, k) <= Len(lines[k].f)
           THEN _si_format(lines[k].f[ParamIdx(lines, elements, k)],
                           ELEMENT_TYPE_UNITS(elements[k].type))
           ELSE <<>>]

\* _parse_element_values(export_text, elements): a value string per element
_parse_element_values(export_text, elements) ==
    LET lines == SelectLines(export_text, EXPORT_META_ONLY)
    IN [k \in 1..Len(elements) |->
           IF k > Len(lines) THEN <<>>
           ELSE IF ParamIdx(lines, elements, k) <= Len(lines[k].f)
                THEN _si_format(lines[k].f[ParamIdx(lines, elements, k)],
                                ELEMENT_TYPE_UNITS(elements[k].type))
                ELSE <<>>]

\* _on_elements_result:
\* elem['value'] = values[i] if i < len(values) else ''
WithValues(elements, values) ==
    [k \in 1..Len(elements) |->
        [index |-> elements[k].index, type |-> elements[k].type,
         posts |-> elements[k].posts, label |-> elements[k].label,
         value |-> IF k <= Len(values) THEN values[k] ELSE <<>>]]

\* _get_editable_indices: the indices of the checked component rows,
\* looked up by row label in label_map
GetEditableIndices(lm, rows) ==
    IF DOMAIN lm = {} THEN {}
    ELSE {lm[rows[r].label] : r \in {q \in 1..Len(rows) :
                                        /\ rows[q].checked
                                        /\ rows[q].label \in DOMAIN lm}}

\* Populate rows (non-wire only): label and Editable checkbox of each row
RECURSIVE CompRows(_, _, _)
CompRows(elements, i2l, old_editable) ==
    IF elements = <<>> THEN <<>>
    ELSE LET elem == Head(elements)
             idx == elem.index
             row == [label |-> IF idx \in DOMAIN i2l THEN i2l[idx]
                               ELSE IntToStr(idx),
                     checked |-> idx \in old_editable]
         IN (IF elem.type # "WireElm" THEN <<row>> ELSE <<>>)
            \o CompRows(Tail(elements), i2l, old_editable)

\* _on_elements_result -> _populate_components(elements, export_text):
\* labels, then connectivity when the export text is not empty, then the
\* component table with the editable state it had
Refresh ==
    /\ ~refreshed
    /\ refreshed' = TRUE
    /\ LET old_editable == GetEditableIndices(label_map, comp_rows)
           lab == _assign_element_labels(sim_elems)
           con == _build_node_connectivity(export, sim_elems, lab.index_to_label)
           values == _parse_element_values(export, sim_elems)
       IN /\ m_elements' = WithValues(sim_elems, values)
          /\ comp_rows' = CompRows(sim_elems, lab.index_to_label, old_editable)
          /\ label_map' = lab.label_map
          /\ index_to_label' = lab.index_to_label
          /\ node_list' = IF export # <<>> THEN con.node_list ELSE EmptyDict
          /\ element_nodes' = IF export # <<>> THEN con.element_nodes ELSE EmptyDict
    /\ UNCHANGED <<export, sim_elems>>
    /\ UNCHANGED <<doc_vars, save_vars, panel_vars>>

\* No document generated yet; no evaluation started
NoDoc == [made |-> FALSE, has_integrity |-> FALSE, qvars |-> <<>>,
          inputs |-> <<>>, prts |-> <<>>, fb_refs |-> <<>>, qtests |-> <<>>]

NoEval == [active |-> FALSE, prt |-> 0, flag |-> 0, val_ok |-> FALSE,
           node |-> "-1", score |-> 0, notes |-> <<>>, visited |-> <<>>,
           test |-> 0]

\* _on_save has not run
NoSave == [done |-> FALSE, warnings |-> <<>>, accepted |-> FALSE,
           written |-> FALSE]

\* No monitor script injected; the simulator holds no circuit
NoMon == [running |-> FALSE, editable |-> {}, lines |-> <<>>, elems |-> <<>>,
          base |-> [none |-> TRUE, sigs |-> <<>>], ok |-> 1,
          events |-> 0, first |-> <<>>, fresh |-> FALSE]

\* SimulatorPanel.__init__: timer created and not started, no values, not
\* connected, both buttons disabled; no page requested yet
NoPanel == [timer |-> FALSE, latest |-> "{}", latest_page |-> 0,
            connected |-> FALSE, save_enabled |-> FALSE,
            use_enabled |-> FALSE, page |-> 0, loaded |-> "no",
            page_values |-> "null", polls |-> <<>>, fresh_returned |-> FALSE]

NetInit ==
    /\ export = <<HeaderLine>>
    /\ sim_elems = <<>>
    /\ refreshed = FALSE
    /\ m_elements = <<>>
    /\ label_map = EmptyDict
    /\ index_to_label = EmptyDict
    /\ node_list = EmptyDict
    /\ element_nodes = EmptyDict
    /\ comp_rows = <<>>
    /\ mode = "all"
    /\ meas_rows = <<>>
    /\ doc = NoDoc
    /\ ev = NoEval
    /\ ctz_text = <<>>
    /\ save = NoSave
    /\ mon = NoMon
    /\ panel = NoPanel

\* Topology specification: unlabelled resistors and wires on Coords
NetAddWire ==
    /\ Len(sim_elems) < MaxLines
    /\ NumTag(export, TRUE) < MaxWires
    /\ \E a \in Coords, b \in Coords : SimAddWire(a, b, NoLabel)

NetAddElem ==
    /\ Len(sim_elems) < MaxLines
    /\ NumTag(export, FALSE) < MaxElems
    /\ \E sh \in ElemShapes : SimAddElem("ResistorElm", sh[1], sh[2], NoLabel)

NetNext == NetAddWire \/ NetAddElem \/ Refresh

SpecNet == NetInit /\ [][NetNext]_vars

----------------------------------------------------------------------------
(* Node resolver properties *)

\* The post coordinates of the elements the last refresh resolved
RefPosts == ElementPosts(GetElementLines(export), m_elements)

\* (element position, post number) pairs that received a node id
PostSlots == {<<i, p>> \in (DOMAIN element_nodes) \X (1..4) :
                 p <= Len(element_nodes[i])}

WirePositions == {k \in 1..Len(export) : export[k].tag = "w"}

NonWireIndices(elements) ==
    {elements[k].index : k \in {j \in 1..Len(elements) :
                                    elements[j].type # "WireElm"}}

\* The export text with the contents of its wire lines permuted by pi
PermuteWires(pi) ==
    [k \in 1..Len(export) |->
        IF k \in WirePositions THEN export[pi[k]] ELSE export[k]]

\* Coordinates joined by a chain of wire records of the export text
WireEdges ==
    {<<<<export[k].f[1].v, export[k].f[2].v>>,
       <<export[k].f[3].v, export[k].f[4].v>>>> : k \in WirePositions}

RECURSIVE Reach(_)
Reach(S) ==
    LET T == S \cup {e[2] : e \in {d \in WireEdges : d[1] \in S}}
                \cup {e[1] : e \in {d \in WireEdges : d[2] \in S}}
    IN IF T = S THEN S ELSE Reach(T)

Joined(c, d) == d \in Reach({c})

\* Member coordinates of node n: the element posts that were given id n
Members(n) == {RefPosts[s[1]][s[2]] : s \in {t \in PostSlots :
                                          element_nodes[t[1]][t[2]] = n}}

NodeIds == {element_nodes[s[1]][s[2]] : s \in PostSlots}

\* C1: permuting the order of the wire lines of the export text (same wires,
\* same elements) never changes the node id of any element post.
C1_WireOrderIndependent ==
    refreshed =>
        \A pi \in Permutations(WirePositions) :
            LET r == _build_node_connectivity(PermuteWires(pi), m_elements,
                                              index_to_label)
            IN \A i \in NonWireIndices(m_elements) :
                   r.element_nodes[i] = element_nodes[i]

\* C2: the node ids are exactly 1..N and are ordered by each group's
\* smallest (y, x) member: the group whose smallest member comes first has
\* the smaller id.
C2_NumberedBySmallestMember ==
    refreshed =>
        /\ DOMAIN node_list = 1..Cardinality(NodeIds)
        /\ NodeIds = DOMAIN node_list
        /\ \A n1 \in NodeIds, n2 \in NodeIds :
               (\E a \in Members(n1) : \A b \in Members(n2) : KeyLess(a, b))
                   => n1 < n2

\* C3: on index-aligned input two element posts have the same node id iff
\* they are the same coordinate or are joined by a chain of wires; every
\* post gets exactly one node id, and that id is a node of node_list.
C3_NodesAreWireComponents ==
    refreshed =>
        /\ \A i \in DOMAIN RefPosts :
               /\ i \in DOMAIN element_nodes
               /\ Len(element_nodes[i]) = m_elements[i + 1].posts
        /\ \A s \in PostSlots : element_nodes[s[1]][s[2]] \in DOMAIN node_list
        /\ \A s \in PostSlots, t \in PostSlots :
               (element_nodes[s[1]][s[2]] = element_nodes[t[1]][t[2]])
                   <=> Joined(RefPosts[s[1]][s[2]], RefPosts[t[1]][t[2]])

\* The topology scenario: R1 and R2 in series, a zero-length wire on their
\* common post: 3 nodes, R1 on nodes 1 and 2, R2 on nodes 2 and 3.
C3_Witness ==
    /\ refreshed
    /\ export = <<HeaderLine,
                  ElemLine("r", <<0, 0>>, <<10, 0>>),
                  ElemLine("r", <<10, 0>>, <<0, 10>>),
                  WireLine(<<10, 0>>, <<10, 0>>)>>
    /\ DOMAIN node_list = {1, 2, 3}
    /\ element_nodes[0] = <<1, 2>>
    /\ element_nodes[1] = <<2, 3>>
    /\ node_list[2].elements = <<<<"R", "1">>, <<"R", "2">>>>

----------------------------------------------------------------------------
(* Component-table specification: typed and user-labelled elements *)

CompTypes == {"ResistorElm", "SwitchElm", "Switch2Elm", "GroundElm"}

\* Labels the user may have given in the simulator: none, 'R1', 'S2'
CompLabels == {NoLabel, <<"R", "1">>, <<"S", "2">>}

CompAddWire ==
    /\ Len(sim_elems) < MaxCompLines
    /\ \E lbl \in CompLabels : SimAddWire(<<0, 0>>, <<10, 0>>, lbl)

CompAddElem ==
    /\ Len(sim_elems) < MaxCompLines
    /\ \E t \in CompTypes, lbl \in CompLabels :
           SimAddElem(t, <<10, 0>>, <<0, 10>>, lbl)

CompNext == CompAddWire \/ CompAddElem \/ Refresh

SpecComp == NetInit /\ [][CompNext]_vars

----------------------------------------------------------------------------
(* Measurement rows resolved against the label map *)

SOURCE_NODE == "node"
SOURCE_ELEMENT == "element"
SOURCE_EXPRESSION == "expression"

ELEMENT_PROPERTIES == {"current", "voltageDiff", "power"}

\* Resolve element_index from label_map:
\* self._label_map.get(identifier, -1) if source == SOURCE_ELEMENT else -1
ResolveIndex(lm, source, identifier) ==
    IF source = SOURCE_ELEMENT
    THEN (IF identifier \in DOMAIN lm THEN lm[identifier] ELSE -1)
    ELSE -1

\* A data key that gives an expression measurement a live key
data_key_keyed_expression(m) ==
    IF m.source_type = SOURCE_NODE THEN [none |-> FALSE, key |-> m.identifier]
    ELSE IF m.source_type = SOURCE_ELEMENT /\ m.element_index >= 0
         THEN [none |-> FALSE,
               key |-> IntToStr(m.element_index) \o <<":">> \o <<m.property>>]
         ELSE [none |-> FALSE,
               key |-> m.identifier \o <<":">> \o <<m.property>>]

\* Measurement.data_key(): [none, key]; none stands for the value None
data_key(m) ==
    IF m.source_type = SOURCE_NODE THEN [none |-> FALSE, key |-> m.identifier]
    ELSE IF m.source_type = SOURCE_EXPRESSION THEN [none |-> TRUE, key |-> <<>>]
    ELSE IF m.element_index >= 0
         THEN [none |-> FALSE,
               key |-> IntToStr(m.element_index) \o <<":">> \o <<m.property>>]
         ELSE [none |-> FALSE,
               key |-> m.identifier \o <<":">> \o <<m.property>>]

\* The key fields of the Measurement _get_measurements builds from a row
RowMeasurement(lm, source, identifier, prop) ==
    [source_type |-> source, identifier |-> identifier, property |-> prop,
     element_index |-> ResolveIndex(lm, source, identifier)]

----------------------------------------------------------------------------
(* Label assigner properties *)

WireIndices(elements) ==
    {elements[k].index : k \in {j \in 1..Len(elements) :
                                    elements[j].type = "WireElm"}}

\* Non-wire elements that carry a user label
UserLabelled(elements) ==
    {k \in 1..Len(elements) : /\ elements[k].type # "WireElm"
                              /\ elements[k].label # NoLabel}

\* C4: no two element indices share a label, and no auto-generated label
\* equals a user-supplied label (user labels may repeat or look like
\* auto-generated ones).
C4_LabelsInjective ==
    refreshed =>
        /\ \A i \in DOMAIN index_to_label, j \in DOMAIN index_to_label :
               i # j => index_to_label[i] # index_to_label[j]
        /\ \A i \in NonWireIndices(m_elements) :
               \A k \in UserLabelled(m_elements) :
                   m_elements[k].index # i => index_to_label[i] # m_elements[k].label

\* C5: label round trip. For every non-wire element index i,
\* label_map[index_to_label[i]] = i, and an element measurement whose
\* identifier is that label resolves to element_index i with data key
\* '{i}:{property}'.
C5_LabelRoundTrip ==
    refreshed =>
        \A i \in NonWireIndices(m_elements) :
            /\ i \in DOMAIN index_to_label
            /\ index_to_label[i] \in DOMAIN label_map
            /\ label_map[index_to_label[i]] = i
            /\ \A prop \in ELEMENT_PROPERTIES :
                   LET m == RowMeasurement(label_map, SOURCE_ELEMENT,
                                           index_to_label[i], prop)
                   IN /\ m.element_index = i
                      /\ data_key(m) = [none |-> FALSE,
                                        key |-> IntToStr(i) \o <<":", prop>>]

\* C6: every non-wire element that carries a non-empty user label is
\* assigned exactly that label, whatever the other elements are.
C6_UserLabelsKept ==
    refreshed =>
        \A k \in UserLabelled(m_elements) :
            /\ m_elements[k].index \in DOMAIN index_to_label
            /\ index_to_label[m_elements[k].index] = m_elements[k].label

\* A switch the user named 'R1' keeps that name while an unlabelled
\* resistor is numbered past it.
C6_Witness ==
    /\ refreshed
    /\ \E k \in UserLabelled(m_elements), j \in 1..Len(m_elements) :
           /\ m_elements[k].type = "SwitchElm"
           /\ m_elements[k].label = <<"R", "1">>
           /\ index_to_label[m_elements[k].index] = <<"R", "1">>
           /\ m_elements[j].type = "ResistorElm"
           /\ m_elements[j].label = NoLabel
           /\ index_to_label[m_elements[j].index] = <<"R", "2">>

\* C7: wires are never labelled or surfaced. No wire index is in
\* index_to_label or a value of label_map (even when the wire carries a
\* user label); every entry of a node's adjacent-element list is the label
\* of a non-wire element with a post on that node; and a wire still holds
\* its index slot: its own export line is aligned with it and its two
\* posts are resolved.
C7_WiresNeverLabelled ==
    refreshed =>
        /\ \A w \in WireIndices(m_elements) :
               /\ w \notin DOMAIN index_to_label
               /\ \A l \in DOMAIN label_map : label_map[l] # w
               /\ GetElementLines(export)[w + 1].tag = "w"
               /\ w \in DOMAIN element_nodes
               /\ Len(element_nodes[w]) = 2
        /\ \A n \in DOMAIN node_list :
               \A e \in 1..Len(node_list[n].elements) :
                   \E i \in NonWireIndices(m_elements) :
                       /\ index_to_label[i] = node_list[n].elements[e]
                       /\ n \in SeqRange(element_nodes[i])

\* A wire that carries the user label 'R1' shares a node with a labelled
\* element; the node lists the element only.
C7_Witness ==
    /\ refreshed
    /\ \E w \in WireIndices(m_elements), i \in NonWireIndices(m_elements) :
           /\ m_elements[w + 1].label = <<"R", "1">>
           /\ element_nodes[w][2] = element_nodes[i][1]
           /\ node_list[element_nodes[w][2]].elements = <<index_to_label[i]>>
           /\ node_list[element_nodes[w][2]].labels # <<>>

----------------------------------------------------------------------------
(* Measurement model *)

PROPERTY_PREFIX ==
    [q \in {"nodeVoltage", "current", "voltageDiff", "power"} |->
        CASE q = "nodeVoltage" -> "V"
          [] q = "current" -> "I"
          [] q = "voltageDiff" -> "V"
          [] q = "power" -> "P"]

\* Characters re.sub(r'[^A-Za-z0-9_]', '_', ...) keeps, among the
\* characters the identifiers of the model are written with
SafeChars == {"V", "A", "R", "I", "P", "S", "_",
              "0", "1", "2", "3", "4", "5", "6", "7", "8", "9"}

RECURSIVE SafeName(_)
SafeName(str) ==
    IF str = <<>> THEN <<>>
    ELSE <<IF Head(str) \in SafeChars THEN Head(str) ELSE "_">>
         \o SafeName(Tail(str))

\* Measurement.display_name()
display_name(m) ==
    IF m.source_type = SOURCE_EXPRESSION
    THEN <<"expr_">> \o SafeName(m.identifier)
    ELSE <<IF m.property \in DOMAIN PROPERTY_PREFIX
           THEN PROPERTY_PREFIX[m.property] ELSE "V">>
         \o <<"_">> \o m.identifier

\* An input name that ignores the position of the measurement
input_name_fixed(index) == <<"ans", "1">>

\* Measurement.input_name(index): 'ans{index + 1}'
input_name(index) == <<"ans">> \o IntToStr(index + 1)

\* A row of the measurement table
Row(source, identifier, prop, target, target_expr, tol, tol_type, graded) ==
    [source |-> source, identifier |-> identifier, prop |-> prop,
     target |-> target, target_expr |-> target_expr, tol |-> tol,
     tol_type |-> tol_type, graded |-> graded]

\* _get_measurements: one Measurement per row whose identifier is not empty
RECURSIVE GetMeasurements(_, _)
GetMeasurements(lm, rows) ==
    IF rows = <<>> THEN <<>>
    ELSE LET r == Head(rows)
             meas == [source_type |-> r.source, identifier |-> r.identifier,
                      property |-> r.prop, target |-> r.target,
                      tolerance |-> r.tol, graded |-> r.graded,
                      tolerance_type |-> r.tol_type,
                      target_expr |-> r.target_expr,
                      element_index |-> ResolveIndex(lm, r.source, r.identifier)]
         IN (IF r.identifier # <<>> THEN <<meas>> ELSE <<>>)
            \o GetMeasurements(lm, Tail(rows))

----------------------------------------------------------------------------
(* Document generator: generate_xml *)

\* _fmt(v), f'{v:g}', of the whole non-negative numbers of the model
Fmt(v) == IntToStr(v)

\* The graded list with the graded flag ignored: every measurement
GradedList_all(measurements) ==
    [k \in 1..Len(measurements) |-> [i |-> k - 1, m |-> measurements[k]]]

\* graded = [(i, m) for i, m in enumerate(measurements) if m.graded],
\* with i counted from 0
GradedList(measurements) ==
    LET F[k \in 0..Len(measurements)] ==
            IF k = 0 THEN <<>>
            ELSE IF measurements[k].graded
                 THEN Append(F[k - 1], [i |-> k - 1, m |-> measurements[k]])
                 ELSE F[k - 1]
    IN F[Len(measurements)]

prt_name(j) == <<"prt">> \o IntToStr(j + 1)

\* '{prt_name}-{node}-{T|F}'
AnswerNote(prt, node, branch) == prt \o <<"-", node, "-", branch>>

\* Gate whose false branch leads on to the value check
GateNode_falls_through(prt) ==
    [name |-> "0", answertest |-> "AlgEquiv",
     sans |-> <<"ans_integrity">>, tans |-> <<"expected_integrity">>,
     testoptions |-> <<>>,
     truescoremode |-> "=", truescore |-> "0.0", truenextnode |-> "1",
     trueanswernote |-> AnswerNote(prt, "0", "T"),
     falsescoremode |-> "=", falsescore |-> "0.0", falsenextnode |-> "1",
     falseanswernote |-> AnswerNote(prt, "0", "F")]

\* Node 0: Integrity gate
GateNode(prt) ==
    [name |-> "0", answertest |-> "AlgEquiv",
     sans |-> <<"ans_integrity">>, tans |-> <<"expected_integrity">>,
     testoptions |-> <<>>,
     truescoremode |-> "=", truescore |-> "0.0", truenextnode |-> "1",
     trueanswernote |-> AnswerNote(prt, "0", "T"),
     falsescoremode |-> "=", falsescore |-> "0.0", falsenextnode |-> "-1",
     falseanswernote |-> AnswerNote(prt, "0", "F")]

\* Value check whose false branch scores full marks
ValueNode_false_scores(prt, value_node, m, iname) ==
    [name |-> value_node,
     answertest |-> IF m.tolerance_type = "relative" THEN "NumRelative"
                    ELSE "NumAbsolute",
     sans |-> IF m.source_type = SOURCE_EXPRESSION THEN <<"computed_sans">>
              ELSE iname,
     tans |-> <<"target_">> \o iname,
     testoptions |-> <<"tol_">> \o iname,
     truescoremode |-> "=", truescore |-> "1.0", truenextnode |-> "-1",
     trueanswernote |-> AnswerNote(prt, value_node, "T"),
     falsescoremode |-> "=", falsescore |-> "1.0", falsenextnode |-> "-1",
     falseanswernote |-> AnswerNote(prt, value_node, "F")]

\* Value check node
ValueNode(prt, value_node, m, iname) ==
    [name |-> value_node,
     answertest |-> IF m.tolerance_type = "relative" THEN "NumRelative"
                    ELSE "NumAbsolute",
     sans |-> IF m.source_type = SOURCE_EXPRESSION THEN <<"computed_sans">>
              ELSE iname,
     tans |-> <<"target_">> \o iname,
     testoptions |-> <<"tol_">> \o iname,
     truescoremode |-> "=", truescore |-> "1.0", truenextnode |-> "-1",
     trueanswernote |-> AnswerNote(prt, value_node, "T"),
     falsescoremode |-> "=", falsescore |-> "0.0", falsenextnode |-> "-1",
     falseanswernote |-> AnswerNote(prt, value_node, "F")]

\* Feedback variables of one scoring structure: for an expression
\* measurement, '{display_name}: ans{k};' for every non-expression
\* measurement and then 'computed_sans: {identifier};'
FeedbackVars(measurements, m) ==
    IF m.source_type # SOURCE_EXPRESSION THEN <<>>
    ELSE LET F[k \in 0..Len(measurements)] ==
                 IF k = 0 THEN <<>>
                 ELSE IF measurements[k].source_type # SOURCE_EXPRESSION
                      THEN Append(F[k - 1],
                               [lhs |-> display_name(measurements[k]),
                                rhs |-> input_name(k - 1)])
                      ELSE F[k - 1]
         IN Append(F[Len(measurements)],
                   [lhs |-> <<"computed_sans">>, rhs |-> m.identifier])

\* One <prt>: the j-th (from 0) graded measurement (i, m)
Prt(measurements, j, g, n_graded, has_integrity) ==
    LET iname == input_name(g.i)
        name == prt_name(j)
        value_node == IF has_integrity THEN "1" ELSE "0"
    IN [name |-> name,
        value |-> <<1, n_graded>>,
        feedbackvariables |-> FeedbackVars(measurements, g.m),
        nodes |-> (IF has_integrity THEN <<GateNode(name)>> ELSE <<>>)
                  \o <<ValueNode(name, value_node, g.m, iname)>>]

\* Question variables: target and tolerance of each graded measurement,
\* then expected_integrity
QVars(graded, has_integrity) ==
    LET F[k \in 0..Len(graded)] ==
            IF k = 0 THEN <<>>
            ELSE LET iname == input_name(graded[k].i)
                     m == graded[k].m
                 IN F[k - 1] \o
                    <<[name |-> <<"target_">> \o iname,
                       value |-> IF m.target_expr # <<>> THEN m.target_expr
                                 ELSE Fmt(m.target)],
                      [name |-> <<"tol_">> \o iname,
                       value |-> Fmt(m.tolerance)]>>
    IN F[Len(graded)]
       \o (IF has_integrity
           THEN <<[name |-> <<"expected_integrity">>, value |-> <<"1">>]>>
           ELSE <<>>)

\* <input> declarations: one per graded measurement, the integrity input,
\* the circuit state input
Inputs(graded, has_integrity) ==
    [k \in 1..Len(graded) |->
        [name |-> input_name(graded[k].i), type |-> "numerical",
         tans |-> <<"target_">> \o input_name(graded[k].i)]]
    \o (IF has_integrity
        THEN <<[name |-> <<"ans_integrity">>, type |-> "numerical",
                tans |-> <<"expected_integrity">>]>>
        ELSE <<>>)
    \o <<[name |-> <<"ans_circuit">>, type |-> "string", tans |-> <<"\"\"">>]>>

\* Test inputs whose integrity flag is always 1
TestInputs_flag_one(graded, has_integrity, wrong, flag) ==
    [k \in 1..Len(graded) |->
        LET iname == input_name(graded[k].i)
        IN [name |-> iname,
            value |-> IF wrong
                      THEN <<"target_">> \o iname \o <<" + ", "tol_">> \o iname
                           \o <<" + ", "1">>
                      ELSE <<"target_">> \o iname]]
    \o (IF has_integrity
        THEN <<[name |-> <<"ans_integrity">>, value |-> <<"1">>]>>
        ELSE <<>>)
    \o <<[name |-> <<"ans_circuit">>, value |-> <<"\"\"">>]>>

\* <testinput> list of a test case: a value per graded input, the
\* integrity flag when there is a gate, the empty circuit state
TestInputs(graded, has_integrity, wrong, flag) ==
    [k \in 1..Len(graded) |->
        LET iname == input_name(graded[k].i)
        IN [name |-> iname,
            value |-> IF wrong
                      THEN <<"target_">> \o iname \o <<" + ", "tol_">> \o iname
                           \o <<" + ", "1">>
                      ELSE <<"target_">> \o iname]]
    \o (IF has_integrity
        THEN <<[name |-> <<"ans_integrity">>, value |-> <<flag>>]>>
        ELSE <<>>)
    \o <<[name |-> <<"ans_circuit">>, value |-> <<"\"\"">>]>>

\* <expected> list of a test case: for j in range(n_graded)
Expected(n_graded, score, penalty, node, branch) ==
    [k \in 1..n_graded |->
        [name |-> prt_name(k - 1), expectedscore |-> score,
         expectedpenalty |-> penalty,
         expectedanswernote |-> AnswerNote(prt_name(k - 1), node, branch)]]

\* generate_xml(..., measurements, editable_indices, ...): the structure
\* of the document (inputs, question variables, scoring structures,
\* feedback references and test cases)
generate_xml(measurements, editable_indices) ==
    LET has_integrity == Len(editable_indices) > 0
        graded == GradedList(measurements)
        n_graded == IF Len(graded) = 0 THEN 1 ELSE Len(graded)
        value_node == IF has_integrity THEN "1" ELSE "0"
    IN [made |-> TRUE,
        has_integrity |-> has_integrity,
        qvars |-> QVars(graded, has_integrity),
        inputs |-> Inputs(graded, has_integrity),
        prts |-> [k \in 1..Len(graded) |->
                     Prt(measurements, k - 1, graded[k], n_graded,
                         has_integrity)],
        fb_refs |-> [k \in 1..n_graded |-> prt_name(k - 1)],
        qtests |->
            <<[testcase |-> "1",
               testinputs |-> TestInputs(graded, has_integrity, FALSE, "1"),
               expected |-> Expected(n_graded, "1.0000000", "0.0000000",
                                     value_node, "T")],
              [testcase |-> "2",
               testinputs |-> TestInputs(graded, has_integrity, TRUE, "1"),
               expected |-> Expected(n_graded, "0.0000000", "0.1000000",
                                     value_node, "F")]>>
            \o (IF has_integrity
                THEN <<[testcase |-> "3",
                        testinputs |-> TestInputs(graded, TRUE, FALSE, "0"),
                        expected |-> Expected(n_graded, "0.0000000",
                                              "0.1000000", "0", "F")]>>
                ELSE <<>>)]

\* editable_indices of _generate with the editable mode ignored
EditableArg_any_mode(md, lm, rows) == SortedSeq(GetEditableIndices(lm, rows))

\* editable_indices of _generate:
\* sorted(self._get_editable_indices()) if mode == 'values' else []
EditableArg(md, lm, rows) ==
    IF md = "values" THEN SortedSeq(GetEditableIndices(lm, rows)) ELSE <<>>

\* _generate(): the document for the current window state
_generate ==
    generate_xml(GetMeasurements(label_map, meas_rows),
                 EditableArg(mode, label_map, comp_rows))

----------------------------------------------------------------------------
(* Document specification: configure, generate, evaluate *)

\* Rows the user may add to the measurement table: a graded node voltage,
\* an ungraded element current, a graded expression
DocRows ==
    {Row(SOURCE_NODE, <<"V", "A">>, "nodeVoltage", 5, <<>>, 1, "absolute", TRUE),
     Row(SOURCE_ELEMENT, <<"R", "1">>, "current", 2, <<>>, 0, "relative", FALSE),
     Row(SOURCE_EXPRESSION, <<"V", "_", "V", "A", "*", "2">>, "expression",
         0, <<"k">>, 1, "absolute", TRUE)}

\* Values of the integrity flag a submission may carry
EvalFlags == {0, 1, 2}

DocAddWire ==
    /\ Len(sim_elems) < MaxDocElems
    /\ SimAddWire(<<0, 0>>, <<10, 0>>, NoLabel)

DocAddElem ==
    /\ Len(sim_elems) < MaxDocElems
    /\ SimAddElem("ResistorElm", <<10, 0>>, <<0, 10>>, NoLabel)

\* The user ticks or unticks the Editable box of a component row
ToggleEditable(r) ==
    /\ refreshed
    /\ ~doc.made
    /\ r \in 1..Len(comp_rows)
    /\ comp_rows' = [comp_rows EXCEPT ![r].checked = ~@]
    /\ UNCHANGED <<export, sim_elems, refreshed, m_elements, label_map,
                   index_to_label, node_list, element_nodes>>
    /\ UNCHANGED <<doc_vars, save_vars, panel_vars>>

\* The user picks an entry of the Editable combo box
SetMode(md) ==
    /\ refreshed
    /\ ~doc.made
    /\ md # mode
    /\ mode' = md
    /\ UNCHANGED <<meas_rows, doc, ev>>
    /\ UNCHANGED <<net_vars, save_vars, panel_vars>>

\* _add_measurement_row, filled in by the user
AddMeasurementRow(row) ==
    /\ refreshed
    /\ ~doc.made
    /\ Len(meas_rows) < MaxMeas
    /\ meas_rows' = Append(meas_rows, row)
    /\ UNCHANGED <<mode, doc, ev>>
    /\ UNCHANGED <<net_vars, save_vars, panel_vars>>

\* _on_save / _update_preview: self._generate()
Generate ==
    /\ refreshed
    /\ ~doc.made
    /\ doc' = _generate
    /\ UNCHANGED <<mode, meas_rows, ev>>
    /\ UNCHANGED <<net_vars, save_vars, panel_vars>>

\* The node of a scoring structure that has the given name
NodeNamed(prt, name) ==
    prt.nodes[CHOOSE k \in 1..Len(prt.nodes) : prt.nodes[k].name = name]

HasNode(prt, name) == \E k \in 1..Len(prt.nodes) : prt.nodes[k].name = name

\* Value of a question variable of the document
QVarValue(d, name) ==
    d.qvars[CHOOSE k \in 1..Len(d.qvars) : d.qvars[k].name = name].value

\* '1.0' / '0.0' as a score
ScoreOf(str) == IF str = "1.0" THEN 1 ELSE 0

\* A submission is graded by scoring structure j: evaluation starts at the
\* first node, with score 0
EvalStart(j, flag, val_ok) ==
    /\ doc.made
    /\ ~ev.active
    /\ j \in 1..Len(doc.prts)
    /\ ev' = [active |-> TRUE, prt |-> j, flag |-> flag, val_ok |-> val_ok,
              node |-> doc.prts[j].nodes[1].name, score |-> 0,
              notes |-> <<>>, visited |-> <<>>, test |-> 0]
    /\ UNCHANGED <<mode, meas_rows, doc>>
    /\ UNCHANGED <<net_vars, save_vars, panel_vars>>

\* One node is evaluated: its answer test decides the branch, the branch
\* sets the score ('=' mode), records its answer note and names the next
\* node; next node -1 ends the evaluation. AlgEquiv compares the submitted
\* integrity flag with the question variable; the numerical tests compare
\* the submitted value with the target (outcome val_ok).
EvalStep ==
    /\ ev.active
    /\ ev.node # "-1"
    /\ HasNode(doc.prts[ev.prt], ev.node)
    /\ LET nd == NodeNamed(doc.prts[ev.prt], ev.node)
           outcome == IF nd.answertest = "AlgEquiv"
                      THEN IntToStr(ev.flag) = QVarValue(doc, nd.tans)
                      ELSE ev.val_ok
       IN ev' = [ev EXCEPT
                    !.score = ScoreOf(IF outcome THEN nd.truescore
                                      ELSE nd.falsescore),
                    !.notes = Append(@, IF outcome THEN nd.trueanswernote
                                        ELSE nd.falseanswernote),
                    !.node = IF outcome THEN nd.truenextnode
                             ELSE nd.falsenextnode,
                    !.visited = Append(@, nd.name)]
    /\ UNCHANGED <<mode, meas_rows, doc>>
    /\ UNCHANGED <<net_vars, save_vars, panel_vars>>

DocNext ==
    \/ DocAddWire
    \/ DocAddElem
    \/ Refresh
    \/ \E r \in 1..MaxDocElems + 1 : ToggleEditable(r)
    \/ \E md \in {"all", "values", "none"} : SetMode(md)
    \/ \E row \in DocRows : AddMeasurementRow(row)
    \/ Generate
    \/ \E j \in 1..MaxMeas + 1, flag \in EvalFlags, ok \in BOOLEAN :
           EvalStart(j, flag, ok)
    \/ EvalStep

SpecDoc == NetInit /\ [][DocNext]_vars

----------------------------------------------------------------------------
(* Integrity gate and scoring structure properties *)

InputNames(d) == {d.inputs[k].name : k \in 1..Len(d.inputs)}

QVarNames(d) == {d.qvars[k].name : k \in 1..Len(d.qvars)}

\* A scoring structure has a gate: a node that tests ans_integrity
PrtHasGate(prt) ==
    \E k \in 1..Len(prt.nodes) : prt.nodes[k].sans = <<"ans_integrity">>

\* The document contains the integrity gate: node 0 of every scoring
\* structure, the ans_integrity input, the expected_integrity variable
DocHasGate ==
    /\ <<"ans_integrity">> \in InputNames(doc)
    /\ <<"expected_integrity">> \in QVarNames(doc)
    /\ \A j \in 1..Len(doc.prts) :
           /\ doc.prts[j].nodes[1].name = "0"
           /\ doc.prts[j].nodes[1].sans = <<"ans_integrity">>
           /\ doc.prts[j].nodes[1].tans = <<"expected_integrity">>

\* The document contains no part of a gate
DocNoGate ==
    /\ <<"ans_integrity">> \notin InputNames(doc)
    /\ <<"expected_integrity">> \notin QVarNames(doc)
    /\ \A j \in 1..Len(doc.prts) : ~PrtHasGate(doc.prts[j])

AllIndices == {m_elements[k].index : k \in 1..Len(m_elements)}

\* The elements the configuration declares student-editable: all of them
\* in mode 'all', none in mode 'none', the ticked ones in mode 'values'
DeclaredEditable ==
    CASE mode = "all" -> AllIndices
      [] mode = "none" -> {}
      [] OTHER -> GetEditableIndices(label_map, comp_rows)

SomeRowChecked == \E r \in 1..Len(comp_rows) : comp_rows[r].checked

\* C8 as stated: the document contains the gate iff the declared editable
\* elements are a non-empty strict subset of the circuit's elements.
C8_GateIffStrictSubset ==
    doc.made =>
        IF DeclaredEditable # {} /\ DeclaredEditable # AllIndices
        THEN DocHasGate
        ELSE DocNoGate

\* C8 amended: the document contains the gate iff the editable mode is
\* 'values' and at least one component is ticked editable (also when every
\* component is ticked); otherwise it contains no part of a gate.
C8_GateIffValuesModeAndChecked ==
    doc.made =>
        IF mode = "values" /\ SomeRowChecked
        THEN DocHasGate
        ELSE DocNoGate

\* Every element of a wire-free circuit is ticked in mode 'values' and the
\* generated scoring structure starts with the gate.
C8_Witness ==
    /\ doc.made
    /\ mode = "values"
    /\ comp_rows # <<>>
    /\ Len(comp_rows) = Len(m_elements)
    /\ \A r \in 1..Len(comp_rows) : comp_rows[r].checked
    /\ doc.prts # <<>>
    /\ DocHasGate

\* C9: in a scoring structure with a gate, an evaluation whose integrity
\* flag differs from 1 ends at the gate: the value check is never entered,
\* the score is 0 and the only answer note is '{prt}-0-F', whatever the
\* value; with flag 1 the gate leaves the score at 0 and goes on to node 1.
C9_GateBlocksTamperedSubmission ==
    (ev.active /\ PrtHasGate(doc.prts[ev.prt])) =>
        /\ ev.visited = <<>> => ev.node = "0"
        /\ ev.flag # 1 =>
               /\ "1" \notin SeqRange(ev.visited)
               /\ ev.visited # <<>> =>
                      /\ ev.node = "-1"
                      /\ ev.score = 0
                      /\ ev.notes = <<AnswerNote(doc.prts[ev.prt].name, "0", "F")>>
        /\ (ev.flag = 1 /\ ev.visited = <<"0">>) =>
               /\ ev.node = "1"
               /\ ev.score = 0
               /\ ev.notes = <<AnswerNote(doc.prts[ev.prt].name, "0", "T")>>

\* A submission with a correct value and integrity flag 0 has ended at
\* the gate.
C9_Witness ==
    /\ ev.active
    /\ PrtHasGate(doc.prts[ev.prt])
    /\ ev.flag = 0
    /\ ev.val_ok
    /\ ev.node = "-1"
    /\ ev.visited = <<"0">>

\* C10: every scoring structure is a terminating decision tree. Its value
\* check is its last node, named 1 with a gate and 0 without, with no next
\* node on either branch; an evaluation visits the gate (if any) and then
\* the value check and nothing else; the final score is 1 exactly when
\* (no gate or flag 1) and the value test is true, else 0.
C10_TerminatingDecisionTree ==
    /\ \A j \in 1..Len(doc.prts) :
           LET prt == doc.prts[j]
               vn == prt.nodes[Len(prt.nodes)]
           IN /\ Len(prt.nodes) = (IF PrtHasGate(prt) THEN 2 ELSE 1)
              /\ vn.name = (IF PrtHasGate(prt) THEN "1" ELSE "0")
              /\ vn.answertest \in {"NumAbsolute", "NumRelative"}
              /\ vn.truenextnode = "-1"
              /\ vn.falsenextnode = "-1"
    /\ ev.active =>
           LET prt == doc.prts[ev.prt]
               path == IF PrtHasGate(prt) THEN <<"0", "1">> ELSE <<"0">>
           IN /\ Len(ev.visited) <= Len(path)
              /\ ev.visited = SubSeq(path, 1, Len(ev.visited))
              /\ ev.node # "-1" => HasNode(prt, ev.node)
              /\ ev.node = "-1" =>
                     ev.score = (IF (~PrtHasGate(prt) \/ ev.flag = 1) /\ ev.val_ok
                                 THEN 1 ELSE 0)

\* A correct submission with flag 1 passed the gate and the value check.
C10_Witness ==
    /\ ev.active
    /\ PrtHasGate(doc.prts[ev.prt])
    /\ ev.flag = 1
    /\ ev.val_ok
    /\ ev.node = "-1"
    /\ ev.visited = <<"0", "1">>
    /\ ev.score = 1

----------------------------------------------------------------------------
(* Scoring structures and inputs of the generated document *)

\* measurements of _generate: self._get_measurements()
CurrentMeasurements == GetMeasurements(label_map, meas_rows)

\* Positions (from 1) of the graded measurements of a list
GradedPositions(ms) == {k \in 1..Len(ms) : ms[k].graded}

\* Position (from 1) of the j-th graded measurement
NthGraded(ms, j) ==
    CHOOSE k \in GradedPositions(ms) :
        Cardinality({q \in GradedPositions(ms) : q <= k}) = j

\* C11: the document has exactly one scoring structure per graded
\* measurement and none for an ungraded one; the j-th structure is named
\* prt{j}, checks the j-th graded measurement in measurement order, and has
\* weight 1/N, N the number of graded measurements (1 when none is graded).
C11_OnePrtPerGraded ==
    doc.made =>
        LET ms == CurrentMeasurements
            cnt == Cardinality(GradedPositions(ms))
            N == IF cnt = 0 THEN 1 ELSE cnt
        IN /\ Len(doc.prts) = cnt
           /\ \A j \in 1..Len(doc.prts) :
                  LET prt == doc.prts[j]
                      k == NthGraded(ms, j)
                  IN /\ prt.name = <<"prt">> \o IntToStr(j)
                     /\ prt.value = <<1, N>>
                     /\ prt.nodes[Len(prt.nodes)].tans
                            = <<"target_", "ans">> \o IntToStr(k)

\* An ungraded measurement comes first and a graded one second: the only
\* scoring structure is prt1 and it checks ans2 with weight 1.
C11_Witness ==
    /\ doc.made
    /\ Len(CurrentMeasurements) = 2
    /\ ~CurrentMeasurements[1].graded
    /\ CurrentMeasurements[2].graded
    /\ Len(doc.prts) = 1
    /\ doc.prts[1].name = <<"prt", "1">>
    /\ doc.prts[1].value = <<1, 1>>
    /\ doc.prts[1].nodes[Len(doc.prts[1].nodes)].tans = <<"target_", "ans", "2">>

----------------------------------------------------------------------------
(* Self-tests of the generated document: the emitted test inputs are       *)
(* evaluated against the emitted question variables and scoring structures *)

\* Value of a CAS expression: a number, or no number
Val(n) == [ok |-> TRUE, v |-> n]

NoValue == [ok |-> FALSE, v |-> 0]

IsNumeral(str) ==
    /\ str # <<>>
    /\ \A k \in 1..Len(str) : str[k] \in SeqRange(DigitChar)

DigitVal(c) == (CHOOSE d \in 1..10 : DigitChar[d] = c) - 1

\* Value of a decimal numeral
StrToInt(str) ==
    LET F[k \in 0..Len(str)] ==
            IF k = 0 THEN 0 ELSE 10 * F[k - 1] + DigitVal(str[k])
    IN F[Len(str)]

\* The terms of a sum 't1 + t2 + ...'
RECURSIVE SplitTerms(_)
SplitTerms(e) ==
    IF e = <<>> THEN <<<<>>>>
    ELSE LET rest == SplitTerms(Tail(e))
         IN IF Head(e) = " + " THEN <<<<>>>> \o rest
            ELSE <<<<Head(e)>> \o Head(rest)>> \o Tail(rest)

\* A term is a numeral or the name of a variable of the environment
TermValue(env, term) ==
    IF IsNumeral(term) THEN Val(StrToInt(term))
    ELSE IF term \in DOMAIN env THEN env[term]
    ELSE NoValue

\* An expression is a sum of terms; it has a number as value when every
\* term has
ExprValue(env, e) ==
    LET ts == SplitTerms(e)
        F[k \in 0..Len(ts)] ==
            IF k = 0 THEN 0 ELSE F[k - 1] + TermValue(env, ts[k]).v
    IN IF \A k \in 1..Len(ts) : TermValue(env, ts[k]).ok
       THEN Val(F[Len(ts)])
       ELSE NoValue

\* Assignments 'name: expression;' evaluated in order on top of env
AssignAll(env, assigns) ==
    LET F[k \in 0..Len(assigns)] ==
            IF k = 0 THEN env
            ELSE Put(F[k - 1], assigns[k].name,
                     ExprValue(F[k - 1], assigns[k].value))
    IN F[Len(assigns)]

\* The question variables of a document
QVarEnv(d) == AssignAll(EmptyDict, d.qvars)

\* The question variables and the inputs of self-test t: every test input
\* is an expression over the question variables
TestEnv(d, t) ==
    LET q == QVarEnv(d)
        ins == d.qtests[t].testinputs
        F[k \in 0..Len(ins)] ==
            IF k = 0 THEN q
            ELSE Put(F[k - 1], ins[k].name, ExprValue(q, ins[k].value))
    IN F[Len(ins)]

\* The environment a scoring structure is evaluated in: question
\* variables, inputs, then its feedback variables
PrtEnv(d, t, prt) ==
    AssignAll(TestEnv(d, t),
              [k \in 1..Len(prt.feedbackvariables) |->
                  [name |-> prt.feedbackvariables[k].lhs,
                   value |-> prt.feedbackvariables[k].rhs]])

Abs(x) == IF x < 0 THEN -x ELSE x

\* Conventions of the numerical answer tests the platform may follow:
\* whether a difference equal to the bound passes, and whether a relative
\* tolerance is taken of the target or of the submitted value
TestConventions == [at_bound : BOOLEAN, base : {"target", "submitted"}]

\* NumAbsolute / NumRelative on (sans, tans, testoptions)
NumTest(test, sa, ta, tol, conv) ==
    IF ~(sa.ok /\ ta.ok /\ tol.ok) THEN FALSE
    ELSE LET diff == Abs(sa.v - ta.v)
             bound == IF test = "NumRelative"
                      THEN tol.v * Abs(IF conv.base = "target" THEN ta.v
                                       ELSE sa.v)
                      ELSE tol.v
         IN IF diff = bound THEN conv.at_bound ELSE diff < bound

\* Outcome of the value check of a scoring structure on self-test t
ValueOutcome(d, t, prt, conv) ==
    LET env == PrtEnv(d, t, prt)
        nd == prt.nodes[Len(prt.nodes)]
    IN NumTest(nd.answertest, ExprValue(env, nd.sans),
               ExprValue(env, nd.tans), ExprValue(env, nd.testoptions), conv)

\* The integrity flag self-test t submits (1 when the test has none)
TestFlag(d, t) ==
    LET env == TestEnv(d, t)
    IN IF <<"ans_integrity">> \in DOMAIN env /\ env[<<"ans_integrity">>].ok
       THEN env[<<"ans_integrity">>].v
       ELSE 1

\* Self-test t is run on scoring structure j
RunTest(t, j, conv) ==
    /\ doc.made
    /\ ~ev.active
    /\ t \in 1..Len(doc.qtests)
    /\ j \in 1..Len(doc.prts)
    /\ ev' = [active |-> TRUE, prt |-> j, flag |-> TestFlag(doc, t),
              val_ok |-> ValueOutcome(doc, t, doc.prts[j], conv),
              node |-> doc.prts[j].nodes[1].name, score |-> 0,
              notes |-> <<>>, visited |-> <<>>, test |-> t]
    /\ UNCHANGED <<mode, meas_rows, doc>>
    /\ UNCHANGED <<net_vars, save_vars, panel_vars>>

\* Rows of the measurement table of the self-test specification: node VA
\* with an absolute and with a relative tolerance, the expression
\* V_VA + V_VA, node VB with the symbolic target 2 + 3 and tolerance 0, an
\* ungraded node VA
TestRows ==
    {Row(SOURCE_NODE, <<"V", "A">>, "nodeVoltage", 5, <<>>, 1, "absolute", TRUE),
     Row(SOURCE_NODE, <<"V", "A">>, "nodeVoltage", 5, <<>>, 1, "relative", TRUE),
     Row(SOURCE_EXPRESSION, <<"V", "_", "V", "A", " + ", "V", "_", "V", "A">>,
         "nodeVoltage", 7, <<>>, 1, "absolute", TRUE),
     Row(SOURCE_NODE, <<"V", "B">>, "nodeVoltage", 0, <<"2", " + ", "3">>, 0,
         "absolute", TRUE),
     Row(SOURCE_NODE, <<"V", "A">>, "nodeVoltage", 5, <<>>, 1, "absolute", FALSE)}

TestNext ==
    \/ DocAddElem
    \/ Refresh
    \/ \E r \in 1..MaxDocElems + 1 : ToggleEditable(r)
    \/ \E md \in {"all", "values", "none"} : SetMode(md)
    \/ \E row \in TestRows : AddMeasurementRow(row)
    \/ Generate
    \/ \E t \in 1..3, j \in 1..MaxMeas + 1, conv \in TestConventions :
           RunTest(t, j, conv)
    \/ EvalStep

SpecTest == NetInit /\ [][TestNext]_vars

----------------------------------------------------------------------------
(* Self-test properties *)

\* The expectation self-test t records for the scoring structure named name
ExpectedFor(d, t, name) ==
    LET ex == d.qtests[t].expected
    IN ex[CHOOSE k \in 1..Len(ex) : ex[k].name = name]

\* A score as the expectations write it
ScoreText(score) == IF score = 1 THEN "1.0000000" ELSE "0.0000000"

\* <penalty>0.1</penalty>: the penalty of a branch that sets none, as the
\* expectations write it; a full score carries no penalty
PenaltyText(score) == IF score = 1 THEN "0.0000000" ELSE "0.1000000"

\* The answer note of a finished evaluation: the note of its last branch
FinalNote == ev.notes[Len(ev.notes)]

\* The name of the value check of a scoring structure
ValueState(prt) == prt.nodes[Len(prt.nodes)].name

\* The outcome of a finished evaluation is what the self-test expects
MatchesExpectation ==
    LET e == ExpectedFor(doc, ev.test, doc.prts[ev.prt].name)
    IN /\ e.expectedscore = ScoreText(ev.score)
       /\ e.expectedpenalty = PenaltyText(ev.score)
       /\ e.expectedanswernote = FinalNote

\* C12: the all-correct self-test (test 1) evaluates every scoring
\* structure to full score with the value check's true-branch note, as its
\* expectation records.
C12_AllCorrectSelfTest ==
    (ev.active /\ ev.test = 1 /\ ev.node = "-1") =>
        LET prt == doc.prts[ev.prt]
        IN /\ ev.score = 1
           /\ FinalNote = AnswerNote(prt.name, ValueState(prt), "T")
           /\ MatchesExpectation

\* C13: the all-wrong self-test (test 2) evaluates every scoring structure
\* to score 0 and penalty 0.1 with the value check's false-branch note, as
\* its expectation records.
C13_AllWrongSelfTest ==
    (ev.active /\ ev.test = 2 /\ ev.node = "-1") =>
        LET prt == doc.prts[ev.prt]
        IN /\ ev.score = 0
           /\ PenaltyText(ev.score) = "0.1000000"
           /\ FinalNote = AnswerNote(prt.name, ValueState(prt), "F")
           /\ MatchesExpectation

\* A self-test is the integrity-failure scenario: every graded input is
\* its target and the integrity flag is 0
IsIntegrityFailureTest(q) ==
    /\ \E k \in 1..Len(q.testinputs) :
           q.testinputs[k] = [name |-> <<"ans_integrity">>, value |-> <<"0">>]
    /\ \A g \in GradedPositions(CurrentMeasurements) :
           \E k \in 1..Len(q.testinputs) :
               q.testinputs[k] = [name |-> <<"ans">> \o IntToStr(g),
                                  value |-> <<"target_", "ans">> \o IntToStr(g)]

\* C14: the document has the integrity-failure self-test iff it has the
\* gate, and then exactly three self-tests, else exactly two; the
\* scenario expects, for every scoring structure, score 0 and the gate's
\* false-branch note '{prt}-0-F', and evaluating the structure on the
\* scenario's inputs ends at the gate with exactly that.
C14_IntegrityFailureSelfTest ==
    /\ doc.made =>
           /\ DocHasGate \/ DocNoGate
           /\ Len(doc.qtests) = (IF DocHasGate THEN 3 ELSE 2)
           /\ (\E t \in 1..Len(doc.qtests) : IsIntegrityFailureTest(doc.qtests[t]))
                  <=> <<"ans_integrity">> \in InputNames(doc)
           /\ Len(doc.qtests) = 3 =>
                  /\ IsIntegrityFailureTest(doc.qtests[3])
                  /\ \A j \in 1..Len(doc.prts) :
                         LET e == ExpectedFor(doc, 3, doc.prts[j].name)
                         IN /\ e.expectedscore = "0.0000000"
                            /\ e.expectedanswernote
                                   = AnswerNote(doc.prts[j].name, "0", "F")
    /\ (ev.active /\ ev.test = 3 /\ ev.node = "-1") =>
           /\ ev.score = 0
           /\ ev.visited = <<"0">>
           /\ ev.notes = <<AnswerNote(doc.prts[ev.prt].name, "0", "F")>>
           /\ MatchesExpectation

\* The integrity-failure scenario, whose value would pass the value check,
\* has been evaluated and ended at the gate with score 0.
C14_Witness ==
    /\ ev.active
    /\ ev.test = 3
    /\ ev.val_ok
    /\ ev.flag = 0
    /\ ev.node = "-1"
    /\ ev.notes = <<AnswerNote(doc.prts[ev.prt].name, "0", "F")>>
    /\ Len(doc.qtests) = 3

\* C15: the document declares exactly one numerical input ans{i+1} for
\* each graded measurement at position i (from 0) and none for an ungraded
\* one, the string input ans_circuit always, and the input ans_integrity
\* exactly when it has the gate; no input name is declared twice.
C15_DeclaredInputs ==
    doc.made =>
        LET ms == CurrentMeasurements
            declared == [k \in 1..Len(doc.inputs) |-> doc.inputs[k].name]
        IN /\ InputNames(doc)
                  = {<<"ans">> \o IntToStr(k) : k \in GradedPositions(ms)}
                    \cup {<<"ans_circuit">>}
                    \cup (IF DocHasGate THEN {<<"ans_integrity">>} ELSE {})
           /\ DocHasGate \/ DocNoGate
           /\ \A a, b \in 1..Len(declared) : declared[a] = declared[b] => a = b
           /\ \A k \in 1..Len(doc.inputs) :
                  doc.inputs[k].type
                      = (IF doc.inputs[k].name = <<"ans_circuit">>
                         THEN "string" ELSE "numerical")

\* A gated document with an ungraded measurement before a graded one
\* declares ans2, ans_integrity and ans_circuit and no ans1.
C15_Witness ==
    /\ doc.made
    /\ DocHasGate
    /\ Len(CurrentMeasurements) = 2
    /\ ~CurrentMeasurements[1].graded
    /\ CurrentMeasurements[2].graded
    /\ [k \in 1..Len(doc.inputs) |-> doc.inputs[k].name]
           = <<<<"ans", "2">>, <<"ans_integrity">>, <<"ans_circuit">>>>

----------------------------------------------------------------------------
(* Live-data keys and subscribe parameters *)

\* Subscribe lists that take every key, seen before or not
_derive_subscribe_params_all(measurements) ==
    LET F[k \in 0..Len(measurements)] ==
            IF k = 0 THEN [nodes |-> <<>>, elements |-> <<>>]
            ELSE LET m == measurements[k]
                     acc == F[k - 1]
                 IN IF m.source_type = SOURCE_NODE
                    THEN [acc EXCEPT !.nodes = Append(@, m.identifier)]
                    ELSE IF m.source_type = SOURCE_ELEMENT
                    THEN [acc EXCEPT !.elements = Append(@, data_key(m).key)]
                    ELSE acc
    IN F[Len(measurements)]

\* _derive_subscribe_params(measurements): the nodes and elements lists
_derive_subscribe_params(measurements) ==
    LET F[k \in 0..Len(measurements)] ==
            IF k = 0 THEN [nodes |-> <<>>, elements |-> <<>>]
            ELSE LET m == measurements[k]
                     acc == F[k - 1]
                     key == data_key(m)
                 IN IF m.source_type = SOURCE_NODE
                    THEN (IF m.identifier \notin SeqRange(acc.nodes)
                          THEN [acc EXCEPT !.nodes = Append(@, m.identifier)]
                          ELSE acc)
                    ELSE IF m.source_type = SOURCE_ELEMENT
                    THEN (IF /\ ~key.none
                             /\ key.key # <<>>
                             /\ key.key \notin SeqRange(acc.elements)
                          THEN [acc EXCEPT !.elements = Append(@, key.key)]
                          ELSE acc)
                    ELSE acc
    IN F[Len(measurements)]

\* str() of an integer
IntText(n) == IF n < 0 THEN <<"-">> \o IntToStr(-n) ELSE IntToStr(n)

\* The subscribed lists name no expression measurement: every entry is the
\* key of a node or of an element measurement
NoExpressionSubscribed(ms) ==
    LET sub == _derive_subscribe_params(ms)
        of(src) == {data_key(ms[k]).key :
                       k \in {q \in 1..Len(ms) : ms[q].source_type = src}}
    IN /\ SeqRange(sub.nodes) = of(SOURCE_NODE)
       /\ SeqRange(sub.elements) = of(SOURCE_ELEMENT)
       /\ \A k \in 1..Len(ms) :
              ms[k].source_type = SOURCE_EXPRESSION => data_key(ms[k]).none

\* C16 as stated: data_key is the node label for a node measurement,
\* '{element_index}:{property}' for every element measurement and None for
\* an expression measurement, which is in neither subscribed list.
C16_DataKeyByIndex ==
    LET ms == CurrentMeasurements
    IN /\ \A k \in 1..Len(ms) :
              LET m == ms[k]
              IN CASE m.source_type = SOURCE_NODE ->
                          data_key(m) = [none |-> FALSE, key |-> m.identifier]
                   [] m.source_type = SOURCE_ELEMENT ->
                          data_key(m) = [none |-> FALSE,
                                         key |-> IntText(m.element_index)
                                                 \o <<":", m.property>>]
                   [] OTHER -> data_key(m).none
       /\ NoExpressionSubscribed(ms)

\* C16 amended: data_key is the node label for a node measurement; for an
\* element measurement it is '{element_index}:{property}' when the
\* identifier resolved to an element (element_index >= 0) and
\* '{identifier}:{property}' when it did not; it is None for an expression
\* measurement, which is in neither subscribed list.
C16_DataKeyByIndexOrIdentifier ==
    LET ms == CurrentMeasurements
    IN /\ \A k \in 1..Len(ms) :
              LET m == ms[k]
              IN CASE m.source_type = SOURCE_NODE ->
                          data_key(m) = [none |-> FALSE, key |-> m.identifier]
                   [] m.source_type = SOURCE_ELEMENT ->
                          data_key(m) =
                              [none |-> FALSE,
                               key |-> (IF m.element_index >= 0
                                        THEN IntText(m.element_index)
                                        ELSE m.identifier)
                                       \o <<":", m.property>>]
                   [] OTHER -> data_key(m).none
       /\ NoExpressionSubscribed(ms)

\* The table holds an element measurement whose label names no element of
\* the circuit and an expression measurement: the element is subscribed by
\* its identifier, the expression is not subscribed.
C16_Witness ==
    LET ms == CurrentMeasurements
    IN /\ Len(ms) = 2
       /\ ms[1].source_type = SOURCE_ELEMENT
       /\ ms[1].element_index = -1
       /\ ms[2].source_type = SOURCE_EXPRESSION
       /\ _derive_subscribe_params(ms)
              = [nodes |-> <<>>, elements |-> <<<<"R", "1", ":", "current">>>>]

----------------------------------------------------------------------------
(* Value extraction specification: elements with well-formed, malformed    *)
(* and missing value tokens                                                *)

MaxValLines == 2    \* elements of the circuit (value specification)

\* 'tag 0 0 10 0 flags token...'
ValLine(tag, toks) ==
    [tag |-> tag,
     f |-> <<Tok(0), Tok(0), Tok(10), Tok(0), Tok(0)>> \o toks]

\* Parameter lists after the flags token, by element type
ValParams(t) ==
    CASE t = "ResistorElm" ->
             {<<>>, <<Tok(0)>>, <<Tok(100)>>, <<Tok(2000)>>,
              <<BadTok(1)>>, <<BadTok(2)>>}
      [] t = "VoltageElm" ->
             {<<Tok(0)>>, <<Tok(0), Tok(5)>>, <<Tok(0), BadTok(2)>>}
      [] OTHER -> {<<>>}

\* The simulator holds one more element, exported with the parameters toks
ValAddLine(t, toks) ==
    /\ ~refreshed
    /\ Len(sim_elems) < MaxValLines
    /\ Len(sim_elems) = Len(GetElementLines(export))
    /\ export' = Append(export, ValLine(TypeTag(t), toks))
    /\ sim_elems' = Append(sim_elems, Elem(Len(sim_elems), t, PostCount(t), NoLabel))
    /\ UNCHANGED <<refreshed, m_elements, label_map, index_to_label,
                   node_list, element_nodes, comp_rows>>
    /\ UNCHANGED <<doc_vars, save_vars, panel_vars>>

\* The element list names one more element than the export text has lines
ValAddElemNoLine ==
    /\ ~refreshed
    /\ Len(sim_elems) < MaxValLines
    /\ sim_elems' = Append(sim_elems, Elem(Len(sim_elems), "ResistorElm", 2, NoLabel))
    /\ UNCHANGED <<export, refreshed, m_elements, label_map, index_to_label,
                   node_list, element_nodes, comp_rows>>
    /\ UNCHANGED <<doc_vars, save_vars, panel_vars>>

\* The export text holds one more scope line ('o ...'), a metadata line
ValAddMeta ==
    /\ ~refreshed
    /\ Len(export) - Len(GetElementLines(export)) < 2
    /\ export' = Append(export, [tag |-> "o", f |-> <<Tok(0)>>])
    /\ UNCHANGED <<sim_elems, refreshed, m_elements, label_map, index_to_label,
                   node_list, element_nodes, comp_rows>>
    /\ UNCHANGED <<doc_vars, save_vars, panel_vars>>

ValNext ==
    \/ \E t \in {"ResistorElm", "VoltageElm", "WireElm"} :
           \E toks \in ValParams(t) : ValAddLine(t, toks)
    \/ ValAddElemNoLine
    \/ ValAddMeta
    \/ Refresh

SpecVal == NetInit /\ [][ValNext]_vars

\* The value token of the k-th element is missing: no line at that index,
\* or a line too short
ValueTokenMissing(k) ==
    LET lines == GetElementLines(export)
    IN k > Len(lines) \/ ParamIdx(lines, m_elements, k) > Len(lines[k].f)

\* The value token of the k-th element is there and is not a number
ValueTokenNotNumber(k) ==
    LET lines == GetElementLines(export)
    IN /\ ~ValueTokenMissing(k)
       /\ ~lines[k].f[ParamIdx(lines, m_elements, k)].ok

\* C17: the value of every element whose value token is missing or is not
\* a number is the empty string.
C17_BadTokenGivesEmptyValue ==
    refreshed =>
        \A k \in 1..Len(m_elements) :
            (ValueTokenMissing(k) \/ ValueTokenNotNumber(k))
                => m_elements[k].value = <<>>

----------------------------------------------------------------------------
(* Save specification: _validate and _on_save *)

\* Contents of the CTZ field: empty, blank, a CTZ value
CtzTexts == {<<>>, <<" ">>, <<"C", "T", "Z">>}

\* str.strip() of a text of the model
RECURSIVE StripSpaces(_)
StripSpaces(text) ==
    IF text = <<>> THEN <<>>
    ELSE IF Head(text) = " " THEN StripSpaces(Tail(text))
    ELSE IF text[Len(text)] = " " THEN StripSpaces(SubSeq(text, 1, Len(text) - 1))
    ELSE text

\* extract_ctz(text) of a text that is no URL: the stripped text
extract_ctz(text) == StripSpaces(text)

WARN_NO_CTZ == "- No CTZ value: question will not load a circuit"
WARN_NO_MEASUREMENTS == "- No measurements: no values will be read"
WARN_NO_GRADED == "- No graded measurements: question has no score"
WARN_EMPTY_IDENTIFIER == "- Empty identifier in measurement row"

\* MainWindow._validate(): the warnings for the current window state
_validate ==
    LET measurements == GetMeasurements(label_map, meas_rows)
        F[k \in 0..Len(measurements)] ==
            IF k = 0 THEN <<>>
            ELSE IF measurements[k].identifier = <<>>
                 THEN Append(F[k - 1], WARN_EMPTY_IDENTIFIER)
                 ELSE F[k - 1]
    IN (IF extract_ctz(ctz_text) = <<>> THEN <<WARN_NO_CTZ>> ELSE <<>>)
       \o (IF measurements = <<>> THEN <<WARN_NO_MEASUREMENTS>> ELSE <<>>)
       \o (IF \A k \in 1..Len(measurements) : ~measurements[k].graded
           THEN <<WARN_NO_GRADED>> ELSE <<>>)
       \o F[Len(measurements)]

\* Rows of the measurement table of the save specification: a graded and
\* an ungraded node VA, a graded and an ungraded row without identifier
SaveRows ==
    {Row(SOURCE_NODE, <<"V", "A">>, "nodeVoltage", 5, <<>>, 1, "absolute", TRUE),
     Row(SOURCE_NODE, <<"V", "A">>, "nodeVoltage", 5, <<>>, 1, "absolute", FALSE),
     Row(SOURCE_NODE, <<>>, "nodeVoltage", 5, <<>>, 1, "absolute", TRUE),
     Row(SOURCE_ELEMENT, <<>>, "current", 0, <<>>, 1, "absolute", FALSE)}

\* The user edits the CTZ field
SetCtz(text) ==
    /\ ~save.done
    /\ text # ctz_text
    /\ ctz_text' = text
    /\ UNCHANGED <<net_vars, doc_vars, save, panel_vars>>

\* _on_save: validate, ask 'Save anyway?' when there are warnings and
\* return unless the reply is Yes, generate, ask for a path and write the
\* file when one is chosen
OnSave(reply, path_chosen) ==
    /\ ~save.done
    /\ ~doc.made
    /\ LET warnings == _validate
           proceed == warnings = <<>> \/ reply = "Yes"
       IN /\ save' = [done |-> TRUE, warnings |-> warnings,
                      accepted |-> (warnings # <<>> /\ reply = "Yes"),
                      written |-> (proceed /\ path_chosen)]
          /\ doc' = IF proceed THEN _generate ELSE doc
    /\ UNCHANGED <<mode, meas_rows, ev, ctz_text>>
    /\ UNCHANGED <<net_vars, panel_vars>>

SaveNext ==
    \/ DocAddElem
    \/ Refresh
    \/ \E text \in CtzTexts : SetCtz(text)
    \/ \E row \in SaveRows : AddMeasurementRow(row)
    \/ \E reply \in {"Yes", "No"}, path_chosen \in BOOLEAN :
           OnSave(reply, path_chosen)

SpecSave == NetInit /\ [][SaveNext]_vars

\* How often a warning occurs in a list
Count(list, w) == Cardinality({k \in 1..Len(list) : list[k] = w})

\* C18: _validate warns of a missing circuit, of no graded measurement and
\* once for each measurement row whose identifier is empty; the file is
\* written only when there is no warning or the user accepted.
C18_ValidateWarnsOfEveryProblem ==
    save.done =>
        /\ extract_ctz(ctz_text) = <<>>
               => Count(save.warnings, WARN_NO_CTZ) = 1
        /\ (\A r \in 1..Len(meas_rows) : ~meas_rows[r].graded)
               => Count(save.warnings, WARN_NO_GRADED) = 1
        /\ Count(save.warnings, WARN_EMPTY_IDENTIFIER)
               = Cardinality({r \in 1..Len(meas_rows) :
                                 meas_rows[r].identifier = <<>>})
        /\ (save.written \/ doc.made)
               => (save.warnings = <<>> \/ save.accepted)

----------------------------------------------------------------------------
(* Union-find idempotence *)

\* The parent dicts the union-find can hold once the wires of the export
\* text are merged: as the wire loop leaves it, and as a later find(c)
\* (path halving) leaves it
ParentsAfterWires ==
    LET parent == MergeWires(EmptyDict, export)
    IN {parent} \cup {find(parent, c).parent : c \in Coords}

\* C20: union(a, b) on two coordinates that already have the same root
\* leaves the root of every coordinate, and so the partition, as it was,
\* whatever unions and finds came before.
C20_UnionIdempotent ==
    \A parent \in ParentsAfterWires :
        \A a \in Coords, b \in Coords :
            RootOf(parent, a) = RootOf(parent, b) =>
                \A c \in Coords :
                    RootOf(union(parent, a, b), c) = RootOf(parent, c)

\* Two wires chain three coordinates; the union of the chain's first
\* coordinate with its root, which are already connected, halves the path
\* (the parent dict changes) and all three keep their root.
C20_Witness ==
    LET parent == MergeWires(EmptyDict, export)
    IN \E a \in Coords, b \in Coords :
           /\ a # b
           /\ \A c \in Coords : RootOf(parent, c) = b
           /\ a \in DOMAIN parent
           /\ parent[a] # b
           /\ union(parent, a, b) # parent
           /\ \A c \in Coords : RootOf(union(parent, a, b), c) = b

----------------------------------------------------------------------------
(* Export lines with malformed coordinates *)

\* How a line of the export text is damaged: 0 = not at all, k in 1..4 =
\* its k-th coordinate token is a word, 5 = it is cut after three tokens
MalKinds == {0, 1, 3, 5}

MalLine(line, kind) ==
    IF kind = 0 THEN line
    ELSE IF kind = 5 THEN [line EXCEPT !.f = SubSeq(@, 1, 3)]
    ELSE [line EXCEPT !.f[kind] = BadTok(2)]

\* A line whose four coordinate tokens are not all present as integers
LineMalformed(line) ==
    \/ Len(line.f) < 4
    \/ \E k \in 1..4 : ~line.f[k].ok

NumMalformed(lines) ==
    Cardinality({k \in 1..Len(lines) : /\ lines[k].tag \notin EXPORT_META_ONLY
                                       /\ LineMalformed(lines[k])})

\* The export text holds a wire line from a to b, damaged by kind; the
\* element list still reports the wire
MalAddWire ==
    /\ ~refreshed
    /\ Len(sim_elems) < MaxMalLines
    /\ \E sh \in ElemShapes, kind \in MalKinds :
           /\ kind # 0 => NumMalformed(export) < MaxMalformed
           /\ export' = Append(export, MalLine(WireLine(sh[1], sh[2]), kind))
           /\ sim_elems' = Append(sim_elems,
                                  Elem(Len(sim_elems), "WireElm", 2, NoLabel))
    /\ UNCHANGED <<refreshed, m_elements, label_map, index_to_label,
                   node_list, element_nodes, comp_rows>>
    /\ UNCHANGED <<doc_vars, save_vars, panel_vars>>

\* The export text holds the line of a resistor or of a ground, damaged by
\* kind; the element list reports the element with its post count
MalAddElem ==
    /\ ~refreshed
    /\ Len(sim_elems) < MaxMalLines
    /\ \E sh \in ElemShapes, t \in {"ResistorElm", "GroundElm"},
          kind \in MalKinds :
           /\ kind # 0 => NumMalformed(export) < MaxMalformed
           /\ t = "GroundElm" => sh = <<<<0, 0>>, <<0, 10>>>>
           /\ export' = Append(export,
                               MalLine(ElemLine(TypeTag(t), sh[1], sh[2]), kind))
           /\ sim_elems' = Append(sim_elems,
                                  Elem(Len(sim_elems), t, PostCount(t), NoLabel))
    /\ UNCHANGED <<refreshed, m_elements, label_map, index_to_label,
                   node_list, element_nodes, comp_rows>>
    /\ UNCHANGED <<doc_vars, save_vars, panel_vars>>

MalNext == MalAddWire \/ MalAddElem \/ Refresh

SpecMal == NetInit /\ [][MalNext]_vars

\* Positions of the element list that have a line in the meta-stripped view
AlignedIndices ==
    {i \in 0..(Len(m_elements) - 1) : i < Len(GetElementLines(export))}

\* The declared posts of element i whose two coordinate tokens are on its
\* line as integers, in post order
OkPosts(i) ==
    LET line == GetElementLines(export)[i + 1]
    IN SortedSeq({k \in 1..m_elements[i + 1].posts :
                     /\ Len(line.f) >= 2 * k
                     /\ line.f[2 * k - 1].ok
                     /\ line.f[2 * k].ok})

\* The k-th post coordinate as the line of element i writes it
LinePost(i, k) ==
    LET line == GetElementLines(export)[i + 1]
    IN <<line.f[2 * k - 1].v, line.f[2 * k].v>>

\* (element position, entry number) pairs, one per readable post
OkSlots == {<<i, m>> \in AlignedIndices \X (1..4) : m <= Len(OkPosts(i))}

\* Wire records whose four coordinate tokens are integers
GoodWireEdges ==
    {<<<<export[k].f[1].v, export[k].f[2].v>>,
       <<export[k].f[3].v, export[k].f[4].v>>>> :
        k \in {j \in WirePositions : ~LineMalformed(export[j])}}

RECURSIVE GoodReach(_)
GoodReach(S) ==
    LET T == S \cup {e[2] : e \in {d \in GoodWireEdges : d[1] \in S}}
                \cup {e[1] : e \in {d \in GoodWireEdges : d[2] \in S}}
    IN IF T = S THEN S ELSE GoodReach(T)

\* Entry m of element_nodes[i] and entry n of element_nodes[j] are the same
\* node exactly when the posts they stand for are the same coordinate or
\* are joined by wires
EntriesAreNodesOfPosts ==
    \A s \in OkSlots, t \in OkSlots :
        /\ s[2] <= Len(element_nodes[s[1]])
        /\ t[2] <= Len(element_nodes[t[1]])
        /\ element_nodes[s[1]][s[2]] \in DOMAIN node_list
        /\ (element_nodes[s[1]][s[2]] = element_nodes[t[1]][t[2]])
               <=> LinePost(t[1], OkPosts(t[1])[t[2]])
                       \in GoodReach({LinePost(s[1], OkPosts(s[1])[s[2]])})

\* C21 as stated: every element with an export line has one node id per
\* declared post in element_nodes, in post order, each the node that
\* contains that post coordinate.
C21_OneNodePerDeclaredPost ==
    refreshed /\ export # <<>> =>
        /\ \A i \in AlignedIndices :
               /\ i \in DOMAIN element_nodes
               /\ Len(element_nodes[i]) = m_elements[i + 1].posts
        /\ EntriesAreNodesOfPosts

\* C21 amended: every element with an export line has one node id per
\* declared post whose coordinate pair is on the line as two integers, in
\* post order, each the node that contains that post coordinate; the list
\* has the length of the post count when every coordinate is readable.
C21_OneNodePerReadablePost ==
    refreshed /\ export # <<>> =>
        /\ \A i \in AlignedIndices :
               /\ i \in DOMAIN element_nodes
               /\ Len(element_nodes[i]) = Len(OkPosts(i))
               /\ Len(OkPosts(i)) <= m_elements[i + 1].posts
        /\ EntriesAreNodesOfPosts

\* Two resistors in series and a ground (one declared post); the line of
\* the second resistor has a word for the x of its second post: two entries
\* for the first resistor, one for the second (its first post, the node the
\* resistors share), one for the ground.
C21_Witness ==
    /\ refreshed
    /\ export = <<HeaderLine,
                  ElemLine("r", <<0, 0>>, <<10, 0>>),
                  MalLine(ElemLine("r", <<10, 0>>, <<0, 10>>), 3),
                  ElemLine("g", <<0, 0>>, <<0, 10>>)>>
    /\ Len(element_nodes[0]) = 2
    /\ Len(element_nodes[1]) = 1
    /\ Len(element_nodes[2]) = 1
    /\ element_nodes[0][2] = element_nodes[1][1]
    /\ element_nodes[2][1] = element_nodes[0][1]
    /\ element_nodes[0][1] # element_nodes[0][2]

\* Position in the element list (1-based) of line k of the export text
ElemPos(k) ==
    Cardinality({j \in 1..k : export[j].tag \notin EXPORT_META_ONLY})

\* A damaged line of element position i (0-based) with what is malformed
\* taken away: only the coordinate pairs of its readable posts are left,
\* and a wire is no longer a wire record. An intact line stays as it is.
SaneLine(line, i) ==
    LET S == OkPosts(i)
    IN IF Len(S) = m_elements[i + 1].posts THEN line
       ELSE [tag |-> IF line.tag = "w" THEN "x" ELSE line.tag,
             f |-> [n \in 1..(2 * Len(S)) |->
                       line.f[2 * S[(n + 1) \div 2] - (n % 2)]] \o <<Tok(0)>>]

SaneExport ==
    [k \in 1..Len(export) |->
        IF export[k].tag \in EXPORT_META_ONLY \/ ElemPos(k) > Len(m_elements)
        THEN export[k]
        ELSE SaneLine(export[k], ElemPos(k) - 1)]

\* The element list declaring, for each element, its readable posts only
SaneElements ==
    [k \in 1..Len(m_elements) |->
        IF k - 1 \in AlignedIndices
        THEN [m_elements[k] EXCEPT !.posts = Len(OkPosts(k - 1))]
        ELSE m_elements[k]]

\* C22: with a non-integer coordinate token (or a missing one) on a wire
\* line or an element line, the node resolver gives the result it gives
\* when the malformed wire is no wire record and the malformed post is not
\* a post at all: the wire merges nothing, the post is in no node, and all
\* other posts and wires get the same nodes.
C22_MalformedCoordinatesAreLeftOut ==
    refreshed /\ export # <<>> =>
        LET r == _build_node_connectivity(SaneExport, SaneElements,
                                          index_to_label)
        IN /\ element_nodes = r.element_nodes
           /\ node_list = r.node_list

\* A resistor from (10,0) to (0,10) and a wire between the same two
\* coordinates whose first x is a word: the resistor's posts stay two
\* nodes, the wire has one entry, the node of its readable end.
C22_Witness ==
    /\ refreshed
    /\ export = <<HeaderLine,
                  ElemLine("r", <<10, 0>>, <<0, 10>>),
                  MalLine(WireLine(<<10, 0>>, <<0, 10>>), 1)>>
    /\ Len(element_nodes[0]) = 2
    /\ element_nodes[0][1] # element_nodes[0][2]
    /\ element_nodes[1] = <<element_nodes[0][2]>>
    /\ DOMAIN node_list = {1, 2}

----------------------------------------------------------------------------
(* Automatic labels *)

\* Rank of a type name in lexicographic (code point) order: '2' sorts
\* before 'E', so 'Switch2Elm' comes before 'SwitchElm'
LexRank(t) ==
    CASE t = "GroundElm" -> 1
      [] t = "ResistorElm" -> 2
      [] t = "Switch2Elm" -> 3
      [] t = "SwitchElm" -> 4
      [] t = "VoltageElm" -> 5
      [] OTHER -> 6

\* Positions (1-based) of the non-wire elements without a user label
AutoElems ==
    {k \in 1..Len(m_elements) : /\ m_elements[k].type # "WireElm"
                                /\ m_elements[k].label = NoLabel}

\* Element j is processed before element k by the auto-generation pass
AutoBefore(j, k) ==
    \/ LexRank(m_elements[j].type) < LexRank(m_elements[k].type)
    \/ (m_elements[j].type = m_elements[k].type /\ j < k)

\* Labels reserved when element k gets its label: the user labels of the
\* non-wire elements and the labels given to the elements processed earlier
ReservedAt(k) ==
    {m_elements[j].label : j \in {i \in 1..Len(m_elements) :
                                     /\ m_elements[i].type # "WireElm"
                                     /\ m_elements[i].label # NoLabel}}
    \cup {index_to_label[j - 1] : j \in {i \in AutoElems : AutoBefore(i, k)}}

LabelNumbers == 1..(2 * Len(m_elements))

\* The number n of the label '{prefix}{n}' element k received, 0 if its
\* label is not of that form
AutoNumber(k) ==
    LET prefix == LabelPrefix(m_elements[k].type)
        ns == {n \in LabelNumbers :
                  index_to_label[k - 1] = prefix \o IntToStr(n)}
    IN IF ns = {} THEN 0 ELSE CHOOSE n \in ns : TRUE

\* The number of the element of the same type processed just before k, 0
\* when k is the first of its type
PreviousNumber(k) ==
    LET earlier == {j \in AutoElems : /\ m_elements[j].type = m_elements[k].type
                                      /\ j < k}
    IN IF earlier = {} THEN 0
       ELSE AutoNumber(CHOOSE j \in earlier : \A i \in earlier : i <= j)

\* C23: every non-wire element without a user label gets '{prefix}{n}',
\* where, taking the types in lexicographic order and the elements of a
\* type by ascending index, n is the smallest number above the number of
\* the previous element of the type whose label is not reserved by a user
\* label or an earlier automatic label; no two elements get the same
\* automatic label.
C23_AutoLabelsSmallestFree ==
    refreshed =>
        /\ \A k \in AutoElems :
               /\ (k - 1) \in DOMAIN index_to_label
               /\ AutoNumber(k) > PreviousNumber(k)
               /\ (LabelPrefix(m_elements[k].type) \o IntToStr(AutoNumber(k)))
                      \notin ReservedAt(k)
               /\ \A c \in LabelNumbers :
                      (c > PreviousNumber(k) /\ c < AutoNumber(k)) =>
                          (LabelPrefix(m_elements[k].type) \o IntToStr(c))
                              \in ReservedAt(k)
        /\ \A j \in AutoElems, k \in AutoElems :
               j # k => index_to_label[j - 1] # index_to_label[k - 1]

\* A SwitchElm, then a Switch2Elm, then a resistor the user named 'S2':
\* the Switch2Elm is processed first and gets S1, the SwitchElm skips S1
\* and the reserved S2 and gets S3.
C23_Witness ==
    /\ refreshed
    /\ Len(m_elements) = 3
    /\ m_elements[1].type = "SwitchElm" /\ m_elements[1].label = NoLabel
    /\ m_elements[2].type = "Switch2Elm" /\ m_elements[2].label = NoLabel
    /\ m_elements[3].type = "ResistorElm" /\ m_elements[3].label = <<"S", "2">>
    /\ index_to_label[1] = <<"S", "1">>
    /\ index_to_label[0] = <<"S", "3">>

----------------------------------------------------------------------------
(* Values parallel to the element list *)

\* C24: the value list has one entry per element of the element list;
\* entry k is what the k-th line of the export text without its '$', 'o',
\* '38', 'h' and '&' lines (wire lines kept) gives for element k, and the
\* empty string when there is no such line.
C24_ValuesParallelToElements ==
    refreshed =>
        LET values == _parse_element_values(export, sim_elems)
            view == SelectLines(export, {"$", "o", "38", "h", "&"})
        IN /\ Len(values) = Len(sim_elems)
           /\ DOMAIN values = 1..Len(sim_elems)
           /\ \A k \in 1..Len(sim_elems) :
                  /\ k \in DOMAIN values
                  /\ values[k] =
                         IF k > Len(view) THEN <<>>
                         ELSE _parse_element_values(<<view[k]>>,
                                                    <<sim_elems[k]>>)[1]

\* A resistor of 100 ohm, a scope line, and a second resistor in the
\* element list that has no line: values '100 Ohm' and ''.
C24_Witness ==
    /\ refreshed
    /\ export = <<HeaderLine, ValLine("r", <<Tok(100)>>),
                  [tag |-> "o", f |-> <<Tok(0)>>]>>
    /\ Len(sim_elems) = 2
    /\ _parse_element_values(export, sim_elems)
           = <<<<"1", "0", "0", " ", "Ohm">>, <<>>>>
    /\ m_elements[2].value = <<>>

----------------------------------------------------------------------------
(* References inside the document *)

PrtNames(d) == {d.prts[k].name : k \in 1..Len(d.prts)}

\* Branch tokens of the scoring structure called name
BranchTokens(d, name) ==
    UNION {{d.prts[k].nodes[n].trueanswernote,
            d.prts[k].nodes[n].falseanswernote} :
               <<k, n>> \in {<<k2, n2>> \in (1..Len(d.prts)) \X (1..2) :
                                /\ d.prts[k2].name = name
                                /\ n2 <= Len(d.prts[k2].nodes)}}

\* C25: every 'prt{j}' the specific-feedback block or a self-test
\* expectation names is a scoring structure of the document, and every
\* expected answer note is a branch token of that structure, for every
\* measurement configuration, one without graded measurements included.
C25_ReferencesAreDefined ==
    doc.made =>
        /\ \A k \in 1..Len(doc.fb_refs) : doc.fb_refs[k] \in PrtNames(doc)
        /\ \A t \in 1..Len(doc.qtests) :
               \A e \in 1..Len(doc.qtests[t].expected) :
                   LET x == doc.qtests[t].expected[e]
                   IN /\ x.name \in PrtNames(doc)
                      /\ x.expectedanswernote \in BranchTokens(doc, x.name)

----------------------------------------------------------------------------
(* Feedback variables of expression structures *)

\* Scoring structures (by number) whose measurement is an expression
ExpressionPrts ==
    {j \in 1..Len(doc.prts) :
        CurrentMeasurements[NthGraded(CurrentMeasurements, j)].source_type
            = SOURCE_EXPRESSION}

\* C26: in the scoring structure of every graded expression measurement,
\* each input name a symbol is bound to in the feedback variables is an
\* input the document declares, whatever the mix of graded and ungraded
\* measurements; the last binding is computed_sans to the measurement's
\* expression text, and the value check compares computed_sans with the
\* measurement's target.
C26_BoundInputsAreDeclared ==
    doc.made =>
        \A j \in ExpressionPrts :
            LET prt == doc.prts[j]
                k == NthGraded(CurrentMeasurements, j)
                fv == prt.feedbackvariables
                vn == prt.nodes[Len(prt.nodes)]
            IN /\ Len(fv) >= 1
               /\ \A b \in 1..(Len(fv) - 1) : fv[b].rhs \in InputNames(doc)
               /\ fv[Len(fv)] = [lhs |-> <<"computed_sans">>,
                                 rhs |-> CurrentMeasurements[k].identifier]
               /\ vn.sans = <<"computed_sans">>
               /\ vn.tans = <<"target_">> \o input_name(k - 1)

----------------------------------------------------------------------------
(* Symbols of expression structures *)

\* Rows on a node and an element that are both called 'R1', and an
\* expression over their symbol
SymRows ==
    {Row(SOURCE_NODE, <<"R", "1">>, "nodeVoltage", 5, <<>>, 1, "absolute", TRUE),
     Row(SOURCE_ELEMENT, <<"R", "1">>, "voltageDiff", 2, <<>>, 1, "absolute", TRUE),
     Row(SOURCE_ELEMENT, <<"R", "1">>, "current", 2, <<>>, 1, "absolute", TRUE),
     Row(SOURCE_EXPRESSION, <<"V", "_", "R", "1">>, "nodeVoltage", 5, <<>>, 1,
         "absolute", TRUE)}

\* _add_measurement_row, filled in by the user with a row of SymRows
SymAddRow ==
    /\ refreshed
    /\ ~doc.made
    /\ Len(meas_rows) < MaxSymRows
    /\ \E row \in SymRows : meas_rows' = Append(meas_rows, row)
    /\ UNCHANGED <<mode, doc, ev>>
    /\ UNCHANGED <<net_vars, save_vars, panel_vars>>

SymNext == DocAddElem \/ Refresh \/ SymAddRow \/ Generate

SpecSym == NetInit /\ [][SymNext]_vars

\* Positions of the non-expression measurements
RawPositions(ms) ==
    {k \in 1..Len(ms) : ms[k].source_type # SOURCE_EXPRESSION}

\* C27: two non-expression measurements with different data keys have
\* different display names, so when the data keys are pairwise different no
\* symbol is bound twice in the feedback variables of a scoring structure.
C27_SymbolNamesOneMeasurement ==
    doc.made =>
        LET ms == CurrentMeasurements
        IN /\ \A a \in RawPositions(ms), b \in RawPositions(ms) :
                  data_key(ms[a]) # data_key(ms[b]) =>
                      display_name(ms[a]) # display_name(ms[b])
           /\ (\A a \in RawPositions(ms), b \in RawPositions(ms) :
                   a # b => data_key(ms[a]) # data_key(ms[b]))
                  => \A j \in 1..Len(doc.prts) :
                         LET fv == doc.prts[j].feedbackvariables
                         IN \A x \in 1..Len(fv), y \in 1..Len(fv) :
                                x # y => fv[x].lhs # fv[y].lhs

----------------------------------------------------------------------------
(* Live-data keys read and subscribed *)

\* The keys of event.data.values the script reads on a 'circuitjs-data'
\* message: one per non-expression measurement for the readout, then one
\* per graded non-expression measurement for its input
JsReadKeys(measurements) ==
    LET D[k \in 0..Len(measurements)] ==
            IF k = 0 THEN <<>>
            ELSE IF measurements[k].source_type = SOURCE_EXPRESSION
                 THEN D[k - 1]
                 ELSE Append(D[k - 1], data_key(measurements[k]).key)
        G[k \in 0..Len(measurements)] ==
            IF k = 0 THEN <<>>
            ELSE IF /\ measurements[k].graded
                    /\ measurements[k].source_type # SOURCE_EXPRESSION
                 THEN Append(G[k - 1], data_key(measurements[k]).key)
                 ELSE G[k - 1]
    IN D[Len(measurements)] \o G[Len(measurements)]

\* Position of the first measurement of a source type that has the key
FirstWithKey(ms, src, key) ==
    CHOOSE k \in 1..Len(ms) :
        /\ ms[k].source_type = src /\ data_key(ms[k]).key = key
        /\ \A q \in 1..(k - 1) :
               ~(ms[q].source_type = src /\ data_key(ms[q]).key = key)

\* A list of keys has no duplicates and is in the order in which the keys
\* first appear among the measurements of the source type
FirstAppearanceOrder(ms, src, list) ==
    /\ \A x \in 1..Len(list), y \in 1..Len(list) :
           x # y => list[x] # list[y]
    /\ \A x \in 1..Len(list) :
           \E k \in 1..Len(ms) :
               ms[k].source_type = src /\ data_key(ms[k]).key = list[x]
    /\ \A x \in 1..Len(list), y \in 1..Len(list) :
           x < y => FirstWithKey(ms, src, list[x]) < FirstWithKey(ms, src, list[y])

\* C28: every key the script reads from a 'circuitjs-data' message is in
\* the node list or in the element list of the 'circuitjs-subscribe'
\* message (a node key in the node list, an element key in the element
\* list), and each list is without duplicates and in first-appearance order.
C28_ReadKeysAreSubscribed ==
    doc.made =>
        LET ms == CurrentMeasurements
            sub == _derive_subscribe_params(ms)
            reads == JsReadKeys(ms)
        IN /\ \A r \in 1..Len(reads) :
                  reads[r] \in SeqRange(sub.nodes) \cup SeqRange(sub.elements)
           /\ \A k \in 1..Len(ms) :
                  /\ ms[k].source_type = SOURCE_NODE =>
                         data_key(ms[k]).key \in SeqRange(sub.nodes)
                  /\ ms[k].source_type = SOURCE_ELEMENT =>
                         data_key(ms[k]).key \in SeqRange(sub.elements)
           /\ FirstAppearanceOrder(ms, SOURCE_NODE, sub.nodes)
           /\ FirstAppearanceOrder(ms, SOURCE_ELEMENT, sub.elements)

\* The table holds the current of R1, the voltage of node R1 and the
\* current of R1 again: six reads of two keys (all three graded, each
\* read for the readout and for its input), one entry in each list.
C28_Witness ==
    /\ doc.made
    /\ Len(CurrentMeasurements) = 3
    /\ CurrentMeasurements[1].source_type = SOURCE_ELEMENT
    /\ CurrentMeasurements[2].source_type = SOURCE_NODE
    /\ CurrentMeasurements[3] = CurrentMeasurements[1]
    /\ CurrentMeasurements[1].element_index = 0
    /\ Len(JsReadKeys(CurrentMeasurements)) = 6
    /\ _derive_subscribe_params(CurrentMeasurements)
           = [nodes |-> <<<<"R", "1">>>>,
              elements |-> <<<<"0", ":", "current">>>>]

----------------------------------------------------------------------------
(* The monitor script of the simulator panel *)

\* var NON_ELEM = ['$','w','o','38','h','&'];
NON_ELEM == {"$", "w", "o", "38", "h", "&"}

\* sim.exportCircuit(): the header line and one line per element
MonExport(lines) == <<HeaderLine>> \o lines

\* f[0] + ' ' + f.slice(2*pc+2).join(' ') of one line
LineSig(line, pc) ==
    <<line.tag>> \o [k \in 1..(Len(line.f) - (2 * pc + 1)) |->
                        line.f[k + 2 * pc + 1]]

\* extractSigs(txt, elems): null when the kept lines and the elements
\* differ in number, else one signature per kept line
extractSigs(txt, elems) ==
    LET lines == SelectLines(txt, NON_ELEM)
    IN IF Len(lines) # Len(elems) THEN [none |-> TRUE, sigs |-> <<>>]
       ELSE [none |-> FALSE,
             sigs |-> [i \in 1..Len(lines) |-> LineSig(lines[i], elems[i].posts)]]

\* The loop over baseSigs and the length test of onanalyze: 1 or 0
CompareSigs(base, sigs, editable) ==
    IF \/ \E ci \in 0..(Len(base) - 1) :
              /\ ci \notin editable
              /\ (ci >= Len(sigs) \/ sigs[ci + 1] # base[ci + 1])
       \/ Len(sigs) # Len(base)
    THEN 0 ELSE 1

\* _on_loaded: runJavaScript(_build_monitor_js()), the editable set not
\* empty (has_integrity)
MonInject(ed) ==
    /\ ~mon.running
    /\ ed # {}
    /\ mon' = [mon EXCEPT !.running = TRUE, !.editable = ed]
    /\ UNCHANGED <<net_vars, doc_vars, save_vars, panel>>

\* The circuit in the page gets one more element: a resistor of p ohm or
\* a wire
MonAddElem(tag, p) ==
    /\ Len(mon.lines) < MaxMonElems
    /\ mon' = [mon EXCEPT
                  !.lines = Append(@, IF tag = "w"
                                      THEN WireLine(<<0, 0>>, <<10, 0>>)
                                      ELSE [ElemLine(tag, <<10, 0>>, <<0, 10>>)
                                               EXCEPT !.f[6] = Tok(p)]),
                  !.elems = Append(@, Elem(Len(mon.elems),
                                           IF tag = "w" THEN "WireElm"
                                           ELSE "ResistorElm", 2, NoLabel)),
                  !.fresh = FALSE]
    /\ UNCHANGED <<net_vars, doc_vars, save_vars, panel>>

\* The value of resistor i (from 1) is edited in the page
MonSetParam(i, p) ==
    /\ i \in 1..Len(mon.lines)
    /\ mon.lines[i].tag = "r"
    /\ mon.lines[i].f[6] # Tok(p)
    /\ mon' = [mon EXCEPT !.lines[i].f[6] = Tok(p), !.fresh = FALSE]
    /\ UNCHANGED <<net_vars, doc_vars, save_vars, panel>>

\* The last element of the circuit is deleted in the page
MonDeleteLast ==
    /\ mon.lines # <<>>
    /\ mon' = [mon EXCEPT !.lines = SubSeq(@, 1, Len(@) - 1),
                          !.elems = SubSeq(@, 1, Len(@) - 1),
                          !.fresh = FALSE]
    /\ UNCHANGED <<net_vars, doc_vars, save_vars, panel>>

\* sim.onanalyze with has_integrity: the first signatures become the
\* baseline, later ones are compared with it; nothing happens when
\* extractSigs returns null. events counts the analyze events (up to 2),
\* first is the circuit at the first of them.
MonAnalyze ==
    /\ mon.running
    /\ LET sigs == extractSigs(MonExport(mon.lines), mon.elems)
       IN mon' = [mon EXCEPT
                     !.base = IF ~sigs.none /\ mon.base.none THEN sigs ELSE @,
                     !.ok = IF ~sigs.none /\ ~mon.base.none
                            THEN CompareSigs(mon.base.sigs, sigs.sigs,
                                             mon.editable)
                            ELSE @,
                     !.events = IF @ < 2 THEN @ + 1 ELSE @,
                     !.first = IF mon.events = 0
                               THEN [lines |-> mon.lines, elems |-> mon.elems]
                               ELSE @,
                     !.fresh = TRUE]
    /\ UNCHANGED <<net_vars, doc_vars, save_vars, panel>>

MonEditableSets == {{0}, {1}, {0, 1}}

MonNext ==
    \/ \E ed \in MonEditableSets : MonInject(ed)
    \/ \E tag \in {"r", "w"}, p \in {100, 200} : MonAddElem(tag, p)
    \/ \E i \in 1..MaxMonElems, p \in {100, 200} : MonSetParam(i, p)
    \/ MonDeleteLast
    \/ MonAnalyze

SpecMon == NetInit /\ [][MonNext]_vars

\* The signature of every element of a circuit, wires included: its type
\* tag and its parameters
ElementSignatures(c) ==
    [i \in 1..Len(c.lines) |-> LineSig(c.lines[i], c.elems[i].posts)]

\* Some element that is not editable has another signature than at the
\* first analyze event, or the number of elements has changed
CircuitTampered ==
    LET was == ElementSignatures(mon.first)
        is == ElementSignatures([lines |-> mon.lines, elems |-> mon.elems])
    IN \/ Len(is) # Len(was)
       \/ \E i \in 1..Len(was) :
              (i - 1) \notin mon.editable /\ i <= Len(is) /\ is[i] # was[i]

\* C29: with a non-empty editable set, the first analyze event records the
\* signatures of the elements as the baseline, and after every later
\* analyze event the integrity value is 0 exactly when an element that is
\* not editable differs from the baseline or the number of elements has
\* changed, for circuits with and without wires.
C29_IntegrityFollowsBaseline ==
    mon.running /\ mon.fresh =>
        /\ mon.events >= 1 =>
               mon.base = [none |-> FALSE, sigs |-> ElementSignatures(mon.first)]
        /\ mon.events >= 2 => mon.ok = (IF CircuitTampered THEN 0 ELSE 1)

----------------------------------------------------------------------------
(* The simulator panel: loading, polling, poll results *)

\* start(url): load or reload. The timer is stopped, the values, the
\* connected flag and both buttons are reset, the page is replaced. Polls
\* already handed to the page stay in flight.
PanelStart ==
    /\ panel.page < MaxLoads
    /\ panel' = [panel EXCEPT !.timer = FALSE, !.latest = "{}",
                              !.latest_page = 0, !.connected = FALSE,
                              !.use_enabled = FALSE, !.save_enabled = FALSE,
                              !.page = @ + 1, !.loaded = "loading",
                              !.page_values = "null",
                              !.fresh_returned = FALSE]
    /\ UNCHANGED <<net_vars, doc_vars, save_vars, mon>>

\* web_view.loadFinished -> _on_loaded(ok): on success the monitor script
\* is injected and the timer started
PanelLoaded(ok) ==
    /\ panel.loaded = "loading"
    /\ panel' = [panel EXCEPT !.loaded = IF ok THEN "ok" ELSE "failed",
                              !.timer = IF ok THEN TRUE ELSE @]
    /\ UNCHANGED <<net_vars, doc_vars, save_vars, mon>>

\* sim.onupdate of the injected script: window._qgen_values = v, an
\* object without keys when nothing is subscribed
PageUpdate(v) ==
    /\ panel.loaded = "ok"
    /\ panel.page_values # v
    /\ panel' = [panel EXCEPT !.page_values = v]
    /\ UNCHANGED <<net_vars, doc_vars, save_vars, mon>>

\* _poll_timer.timeout -> _poll: runJavaScript is handed to the page
PanelPoll ==
    /\ panel.timer
    /\ Len(panel.polls) < MaxPolls
    /\ panel' = [panel EXCEPT !.polls =
                    Append(@, [issued_page |-> panel.page,
                               result |-> "pending", result_page |-> 0])]
    /\ UNCHANGED <<net_vars, doc_vars, save_vars, mon>>

\* Pending polls, oldest first
PendingPolls == {k \in 1..Len(panel.polls) : panel.polls[k].result = "pending"}

\* The page evaluates JSON.stringify(window._qgen_values) of the oldest
\* pending poll: the result is that of the page that is current then
PollJsRun ==
    /\ PendingPolls # {}
    /\ LET k == CHOOSE q \in PendingPolls : \A r \in PendingPolls : q <= r
       IN panel' = [panel EXCEPT !.polls[k].result = panel.page_values,
                                 !.polls[k].result_page = panel.page]
    /\ UNCHANGED <<net_vars, doc_vars, save_vars, mon>>

\* _on_poll_result(result), the callback of the oldest poll: nothing on
\* 'null'; else the values are installed, the panel is connected, the save
\* button is enabled and the use button is enabled when there are values.
\* fresh_returned records that a poll issued on the current page returned.
PollResult ==
    /\ panel.polls # <<>>
    /\ Head(panel.polls).result # "pending"
    /\ LET poll == Head(panel.polls)
           p1 == [panel EXCEPT !.polls = Tail(@),
                               !.fresh_returned =
                                   @ \/ poll.issued_page = panel.page]
       IN panel' = IF poll.result = "null" THEN p1
                   ELSE [p1 EXCEPT !.latest = poll.result,
                                   !.latest_page = poll.result_page,
                                   !.connected = TRUE,
                                   !.save_enabled = TRUE,
                                   !.use_enabled = (poll.result = "vals")]
    /\ UNCHANGED <<net_vars, doc_vars, save_vars, mon>>

PanelNext ==
    \/ PanelStart
    \/ \E ok \in BOOLEAN : PanelLoaded(ok)
    \/ \E v \in {"{}", "vals"} : PageUpdate(v)
    \/ PanelPoll
    \/ PollJsRun
    \/ PollResult

SpecPanel == NetInit /\ [][PanelNext]_vars

\* C30: from start(url) until a poll issued after the new page finished
\* loading has returned, _latest_values is empty, _sim_connected is False
\* and both buttons are disabled; the callback of a poll issued before
\* start() changes none of that.
C30_ResetHoldsUntilFreshPoll ==
    (panel.page >= 1 /\ ~panel.fresh_returned) =>
        /\ panel.latest = "{}"
        /\ panel.latest_page = 0
        /\ ~panel.connected
        /\ ~panel.save_enabled
        /\ ~panel.use_enabled

====
